---------------------------- MODULE Spec2Model ----------------------------
(***************************************************************************)
(* Verification model of the voxel shooter: the authoritative server       *)
(* (server.js) and the browser client (main.js, weapon.js, enemy.js,       *)
(* player.js, world.js, ui.js).                                            *)
(*                                                                         *)
(* Numbers.  JavaScript numbers are IEEE doubles; TLC has 32-bit integers. *)
(* The model uses fixed point:                                             *)
(*   positions            1/1000 world unit   (U)                          *)
(*   velocities           1/1000 world unit per second                     *)
(*   time, Date.now()     milliseconds, so delta seconds = ms / 1000       *)
(*   noise arguments      1/1000000 lattice unit (NU)                      *)
(*   noise values         1/10000  (FS)                                    *)
(*   client health        1/2 health point (HP), water damage being 0.5    *)
(* A product that a double would round is rounded down to the fixed-point  *)
(* grid (\div); all comparisons are those of the source.                   *)
(***************************************************************************)
EXTENDS Integers, Sequences, FiniteSets, TLC

(***************************************************************************)
(* Fixed-point scales.                                                     *)
(***************************************************************************)
U == 1000
NU == U * U
FS == 10 * U
HP == 2

(***************************************************************************)
(* CONFIG of server.js (lines 21-37), in model units.                      *)
(***************************************************************************)
WORLD_HEIGHT == 64
PLAYER_SPEED == 8
PLAYER_HEIGHT == 1800
JUMP_VELOCITY == 12
GRAVITY == -25
BULLET_DAMAGE == 25
BULLET_GRAVITY == -15
BULLET_MAX_BOUNCES == 3
AMMO_CAPACITY == 30
TOTAL_AMMO == 120
MAX_HEALTH == 100

(***************************************************************************)
(* x * BULLET_BOUNCE_DAMPENING, the dampening being 0.4 = 2/5.             *)
(***************************************************************************)
BULLET_BOUNCE_DAMPENING(x) == (x * 2) \div 5

(***************************************************************************)
(* The seed of the noise generator both programs construct.                *)
(***************************************************************************)
WorldSeed == 42

Abs(n) == IF n < 0 THEN -n ELSE n

Min(a, b) == IF a < b THEN a ELSE b

Max(a, b) == IF a > b THEN a ELSE b

(***************************************************************************)
(* JavaScript arrays are indexed from 0, TLA+ sequences from 1.            *)
(***************************************************************************)
At(arr, i) == arr[i + 1]

(***************************************************************************)
(* The array [lo, lo + 1, ..., lo + n - 1], n >= 1.                        *)
(***************************************************************************)
RECURSIVE Iota(_, _)
Iota(lo, n) ==
    IF n = 1 THEN <<lo>>
    ELSE LET h == n \div 2 IN Iota(lo, h) \o Iota(lo + h, n - h)

(***************************************************************************)
(* One step of the generator: rng = (rng * 9301 + 49297) % 233280, for     *)
(* rng within -233280..233280.  rng * 9301 exceeds 32 bits, so the product *)
(* is split.  The remainder of JavaScript has the sign of the dividend,    *)
(* which is negative from rng = -6 down.                                   *)
(***************************************************************************)
LcgNext(rng) ==
    LET m == (((rng * 9000) % 233280) + rng * 301 + 49297) % 233280
    IN  IF rng >= -5 \/ m = 0 THEN m ELSE m - 233280

(***************************************************************************)
(* What reading an absent element of an array gives, as a number that is   *)
(* no entry of the table.                                                  *)
(***************************************************************************)
Undefined == -1

(***************************************************************************)
(* One iteration of the shuffle loop of generatePermutation, on the loop   *)
(* state [p, own, rng]: j = Math.floor((rng / 233280) * (i + 1)), then     *)
(* p[i] and p[j] are swapped.  A negative j is no index of the array: the  *)
(* read of p[j] gives what was stored under that key before, undefined at  *)
(* first, and the write stores p[i] under the key without touching the     *)
(* elements; own holds what is stored under the keys -256..-1.             *)
(***************************************************************************)
Swap(st, i, j, r) ==
    IF j >= 0
    THEN [p |-> [st.p EXCEPT ![i + 1] = At(st.p, j), ![j + 1] = At(st.p, i)],
          own |-> st.own,
          rng |-> r]
    ELSE [p |-> [st.p EXCEPT ![i + 1] = st.own[j]],
          own |-> [st.own EXCEPT ![j] = At(st.p, i)],
          rng |-> r]

(***************************************************************************)
(* A variant of the scaling that draws j from 0..i-1, never i itself.      *)
(***************************************************************************)
ScaledShort(r, i) == (r * i) \div 233280

Scaled(r, i) == (r * (i + 1)) \div 233280

ShuffleStep(st, i) == Swap(st, i, Scaled(LcgNext(st.rng), i), LcgNext(st.rng))

(***************************************************************************)
(* The n iterations i, i - 1, ..., i - n + 1 of the shuffle loop, in that  *)
(* order.  The iterations are split in halves to keep the evaluation       *)
(* shallow, and the test of st.p makes TLC, which evaluates arguments      *)
(* lazily, finish the first half before it starts the second.              *)
(***************************************************************************)
RECURSIVE Shuffle(_, _, _)
Shuffle(st, i, n) ==
    IF n = 0 \/ Len(st.p) = 0 THEN st
    ELSE IF n = 1 THEN ShuffleStep(st, i)
    ELSE LET h == n \div 2
         IN  Shuffle(Shuffle(st, i, h), i - h, n - h)

(***************************************************************************)
(* PerlinNoise.generatePermutation: the table 0..255 shuffled from         *)
(* i = 255 down to 1, then concatenated with itself.                       *)
(***************************************************************************)
generatePermutation(seed) ==
    LET p == Shuffle([p |-> Iota(0, 256),
                      own |-> [k \in -256..-1 |-> Undefined],
                      rng |-> seed], 255, 255).p
    IN  p \o p

(***************************************************************************)
(* noise = new PerlinNoise(42): the table of the generator in use.         *)
(***************************************************************************)
permutation == generatePermutation(WorldSeed)

(***************************************************************************)
(* PerlinNoise.fade, lerp, grad on fixed-point values of scale FS.         *)
(***************************************************************************)
fade(t) ==
    LET t3 == (((t * t) \div FS) * t) \div FS
        poly == ((t * (6 * t - 15 * FS)) \div FS) + 10 * FS
    IN  (t3 * poly) \div FS

lerp(t, a, b) == a + (t * (b - a)) \div FS

grad(hash, x, y, z) ==
    LET h == hash % 16
        u == IF h < 8 THEN x ELSE y
        v == IF h < 4 THEN y ELSE IF h = 12 \/ h = 14 THEN x ELSE z
    IN  (IF h % 2 = 0 THEN u ELSE -u) + (IF (h \div 2) % 2 = 0 THEN v ELSE -v)

(***************************************************************************)
(* PerlinNoise.noise(x, y, z): arguments of scale NU, result of scale FS.  *)
(***************************************************************************)
noise(xa, ya, za) ==
    LET p(i) == At(permutation, i)
        X == (xa \div NU) % 256
        Y == (ya \div NU) % 256
        Z == (za \div NU) % 256
        x == (xa % NU) \div (NU \div FS)
        y == (ya % NU) \div (NU \div FS)
        z == (za % NU) \div (NU \div FS)
        u == fade(x)
        v == fade(y)
        w == fade(z)
        A == p(X) + Y
        AA == p(A) + Z
        AB == p(A + 1) + Z
        B == p(X + 1) + Y
        BA == p(B) + Z
        BB == p(B + 1) + Z
    IN  lerp(w,
             lerp(v,
                  lerp(u, grad(p(AA), x, y, z),
                          grad(p(BA), x - FS, y, z)),
                  lerp(u, grad(p(AB), x, y - FS, z),
                          grad(p(BB), x - FS, y - FS, z))),
             lerp(v,
                  lerp(u, grad(p(AA + 1), x, y, z - FS),
                          grad(p(BA + 1), x - FS, y, z - FS)),
                  lerp(u, grad(p(AB + 1), x, y - FS, z - FS),
                          grad(p(BB + 1), x - FS, y - FS, z - FS))))

(***************************************************************************)
(* PerlinNoise.octaveNoise(x, y, octaves, persistence, scale).  x and y    *)
(* are positions (scale U); persistence and scale are given in            *)
(* thousandths (0.5 is 500, 0.01 is 10), so that x * frequency is exact    *)
(* in NU.  The amplitude is kept in thousandths, rounded as it shrinks.    *)
(***************************************************************************)
RECURSIVE OctaveSum(_, _, _, _, _, _, _, _)
OctaveSum(x, y, i, persistence, value, amplitude, frequency, maxValue) ==
    IF i = 0 THEN value \div maxValue
    ELSE OctaveSum(x, y, i - 1, persistence,
                   value + noise(x * frequency, y * frequency, 0) * amplitude,
                   (amplitude * persistence) \div 1000,
                   frequency * 2,
                   maxValue + amplitude)

octaveNoise(x, y, octaves, persistence, scale) ==
    OctaveSum(x, y, octaves, persistence, 0, 1000, scale, 0)

(***************************************************************************)
(* server.js getTerrainHeight(x, z): whole blocks.                         *)
(***************************************************************************)
getTerrainHeight(x, z) ==
    LET heightNoise == octaveNoise(x, z, 4, 500, 10)
        baseHeight == (20 * FS + heightNoise * 20) \div FS
    IN  baseHeight + 1

(***************************************************************************)
(* The height at the column of the spawn point is a constant of the world, *)
(* evaluated once; TerrainHeightAt is getTerrainHeight with that column    *)
(* looked up.                                                              *)
(***************************************************************************)
spawnHeight == getTerrainHeight(0, 0)

TerrainHeightAt(x, z) ==
    IF x = 0 /\ z = 0 THEN spawnHeight ELSE getTerrainHeight(x, z)

(***************************************************************************)
(* Bounds of the model.                                                    *)
(*   MaxConnections  sockets that ever connect (ids 1..MaxConnections)     *)
(*   MaxVolley       shots accepted in a run of the whole server           *)
(*   MaxShots        shots accepted in a run of the duel                   *)
(*   MaxSequence     highest sequence number a client sends                *)
(*   MaxInputs       the same, of the paced server                         *)
(*   StartTime       Date.now() when the server starts                     *)
(*   MaxTime         the last reading of the clock                         *)
(*   ClockStep       milliseconds between two ticks of the game loop       *)
(***************************************************************************)
MaxConnections == 2
MaxVolley == 2
MaxShots == 5
MaxSequence == 1
MaxInputs == 3
StartTime == 1000
MaxTime == 6000
ClockStep == 1000

Vec(x, y, z) == [x |-> x, y |-> y, z |-> z]

(***************************************************************************)
(* new ServerPlayer(id, socketId) at Date.now() = t.                       *)
(***************************************************************************)
ServerPlayer(id, t) ==
    [id |-> id,
     position |-> Vec(0, TerrainHeightAt(0, 0) * U + PLAYER_HEIGHT, 0),
     rotation |-> Vec(0, 0, 0),
     velocity |-> Vec(0, 0, 0),
     health |-> MAX_HEALTH,
     ammo |-> AMMO_CAPACITY,
     totalAmmo |-> TOTAL_AMMO,
     lastShot |-> 0,
     isAlive |-> TRUE,
     inputSequence |-> 0,
     lastInputTime |-> t,
     isGrounded |-> FALSE]

(***************************************************************************)
(* A variant of the ground test of ServerPlayer.update that stops the fall *)
(* without lifting the player to the terrain.                              *)
(***************************************************************************)
SettleSunk(p, x, y, z, vy, terrainHeight) ==
    IF y <= terrainHeight + PLAYER_HEIGHT
    THEN [p EXCEPT !.position = Vec(x, y, z),
                   !.velocity = Vec((p.velocity.x * 85) \div 100, 0,
                                    (p.velocity.z * 85) \div 100),
                   !.isGrounded = TRUE]
    ELSE [p EXCEPT !.position = Vec(x, y, z),
                   !.velocity = Vec(p.velocity.x, vy, p.velocity.z),
                   !.isGrounded = FALSE]

(***************************************************************************)
(* The ground collision and the friction of ServerPlayer.update, for a     *)
(* player moved to (x, y, z) with vertical velocity vy over terrain of     *)
(* height terrainHeight.                                                   *)
(***************************************************************************)
Settle(p, x, y, z, vy, terrainHeight) ==
    IF y <= terrainHeight + PLAYER_HEIGHT
    THEN [p EXCEPT !.position = Vec(x, terrainHeight + PLAYER_HEIGHT, z),
                   !.velocity = Vec((p.velocity.x * 85) \div 100, 0,
                                    (p.velocity.z * 85) \div 100),
                   !.isGrounded = TRUE]
    ELSE [p EXCEPT !.position = Vec(x, y, z),
                   !.velocity = Vec(p.velocity.x, vy, p.velocity.z),
                   !.isGrounded = FALSE]

(***************************************************************************)
(* ServerPlayer.update(delta), delta in milliseconds.                      *)
(***************************************************************************)
ServerPlayerUpdate(p, delta) ==
    LET vy == p.velocity.y + GRAVITY * delta
        x == p.position.x + (p.velocity.x * delta) \div U
        y == p.position.y + (vy * delta) \div U
        z == p.position.z + (p.velocity.z * delta) \div U
    IN  Settle(p, x, y, z, vy, TerrainHeightAt(x, z) * U)

(***************************************************************************)
(* Two variants of takeDamage that the properties of health are measured   *)
(* against: one declares the player dead only below 0, the other has no    *)
(* death branch at all.                                                    *)
(***************************************************************************)
takeDamageLate(p, damage) ==
    LET h == p.health - damage
        q == IF h < 0
             THEN [p EXCEPT !.isAlive = FALSE, !.health = 0]
             ELSE [p EXCEPT !.health = h]
    IN  [player |-> q, killed |-> ~q.isAlive]

takeDamageNoDeath(p, damage) ==
    [player |-> [p EXCEPT !.health = @ - damage], killed |-> FALSE]

(***************************************************************************)
(* ServerPlayer.takeDamage(damage, sourceId): the player after the call    *)
(* and the value returned.                                                 *)
(***************************************************************************)
takeDamage(p, damage) ==
    LET h == p.health - damage
        q == IF h <= 0
             THEN [p EXCEPT !.isAlive = FALSE, !.health = 0]
             ELSE [p EXCEPT !.health = h]
    IN  [player |-> q, killed |-> ~q.isAlive]

(***************************************************************************)
(* new ServerBullet(id, position, velocity, damage, ownerId).              *)
(* life is 5.0 seconds, kept in milliseconds.                              *)
(***************************************************************************)
ServerBullet(id, position, velocity, damage, ownerId) ==
    [id |-> id,
     position |-> position,
     velocity |-> velocity,
     damage |-> damage,
     ownerId |-> ownerId,
     life |-> 5 * U,
     bounceCount |-> 0,
     isActive |-> TRUE]

(***************************************************************************)
(* Math.sqrt(dx^2 + dy^2 + dz^2) < 1.0 for two positions.  A difference    *)
(* of a unit or more on one axis decides it; the squares are taken only    *)
(* of smaller differences, which fit 32 bits.                              *)
(***************************************************************************)
WithinHitDistance(a, b) ==
    LET dx == a.x - b.x
        dy == a.y - b.y
        dz == a.z - b.z
    IN  /\ Abs(dx) < U
        /\ Abs(dy) < U
        /\ Abs(dz) < U
        /\ dx * dx + dy * dy + dz * dz < U * U

(***************************************************************************)
(* A variant of Skips that passes the owner only.                          *)
(***************************************************************************)
SkipsOwnerOnly(b, p) == p.id = b.ownerId

(***************************************************************************)
(* The test at the head of the player loop of ServerBullet.update: the     *)
(* bullet passes its owner and every player that is not alive.             *)
(***************************************************************************)
Skips(b, p) == p.id = b.ownerId \/ ~p.isAlive

(***************************************************************************)
(* The player loop of ServerBullet.update: the index in the registry of    *)
(* the first player, in insertion order, that the bullet hits; 0 if none.  *)
(***************************************************************************)
RECURSIVE FirstHit(_, _, _)
FirstHit(b, ps, i) ==
    IF i > Len(ps) THEN 0
    ELSE IF Skips(b, ps[i]) THEN FirstHit(b, ps, i + 1)
    ELSE IF WithinHitDistance(b.position, ps[i].position) THEN i
    ELSE FirstHit(b, ps, i + 1)

(***************************************************************************)
(* A variant of CanBounce that allows one bounce more.                     *)
(***************************************************************************)
CanBounceAgain(b) == b.bounceCount <= BULLET_MAX_BOUNCES

(***************************************************************************)
(* The test that decides between a bounce and deactivation when the bullet *)
(* is below the terrain.                                                   *)
(***************************************************************************)
CanBounce(b) == b.bounceCount < BULLET_MAX_BOUNCES

(***************************************************************************)
(* A variant of PlayerHit that never reports a kill.                       *)
(***************************************************************************)
PlayerHitSurvived(targetId, shooterId, damage, position, killed) ==
    [event |-> "player-hit", targetId |-> targetId, shooterId |-> shooterId,
     damage |-> damage, position |-> position, killed |-> FALSE]

(***************************************************************************)
(* The object io.emit('player-hit', ...) sends for a hit.                  *)
(***************************************************************************)
PlayerHit(targetId, shooterId, damage, position, killed) ==
    [event |-> "player-hit", targetId |-> targetId, shooterId |-> shooterId,
     damage |-> damage, position |-> position, killed |-> killed]

(***************************************************************************)
(* What ServerBullet.update gives back: the bullet and the registry after  *)
(* the call, the value returned and the player-hit events emitted.  Two    *)
(* more fields record what happened in the call: every call of takeDamage  *)
(* (the bullet, the target as it was before the call, and the value        *)
(* takeDamage returned) and every time the bullet was found below the      *)
(* terrain (its id and its bounceCount at that moment).                    *)
(***************************************************************************)
Updated(b, ps, ret, events, calls, collisions) ==
    [bullet |-> b, players |-> ps, ret |-> ret, events |-> events,
     damaged |-> calls, collided |-> collisions]

(***************************************************************************)
(* The hit of ServerBullet.update: bullet b damages the i-th player of ps  *)
(* and is deactivated; r is what takeDamage gave.                          *)
(***************************************************************************)
Strike(b, ps, i, r, collisions) ==
    Updated([b EXCEPT !.isActive = FALSE],
            [ps EXCEPT ![i] = r.player],
            FALSE,
            << PlayerHit(ps[i].id, b.ownerId, b.damage, b.position, r.killed) >>,
            << [bullet |-> b, target |-> ps[i], killed |-> r.killed] >>,
            collisions)

(***************************************************************************)
(* The player loop of ServerBullet.update for bullet b, where i is the     *)
(* index of the first player hit, 0 if there is none.                      *)
(***************************************************************************)
Collide(b, ps, i, collisions) ==
    IF i = 0 THEN Updated(b, ps, TRUE, <<>>, <<>>, collisions)
    ELSE Strike(b, ps, i, takeDamage(ps[i], b.damage), collisions)

(***************************************************************************)
(* A variant of the rest of ServerBullet.update in which a bounce turns    *)
(* the bullet upward without lifting it onto the terrain.                  *)
(***************************************************************************)
LandSunk(b, delta, ps, x, y, z, vy, terrainHeight) ==
    LET below == y < terrainHeight
        bounce == below /\ CanBounce(b)
        moved == [b EXCEPT
                    !.position = Vec(x, y, z),
                    !.velocity = Vec(b.velocity.x,
                                     IF bounce THEN BULLET_BOUNCE_DAMPENING(-vy) ELSE vy,
                                     b.velocity.z),
                    !.bounceCount = IF bounce THEN @ + 1 ELSE @]
        aged == [moved EXCEPT !.life = @ - delta]
        met == IF below THEN {[id |-> b.id, bounces |-> b.bounceCount]} ELSE {}
    IN  IF below /\ ~bounce
        THEN Updated([moved EXCEPT !.isActive = FALSE], ps, FALSE, <<>>, <<>>, met)
        ELSE IF moved.position.y > (WORLD_HEIGHT + 50) * U
        THEN Updated([moved EXCEPT !.isActive = FALSE], ps, FALSE, <<>>, <<>>, met)
        ELSE IF aged.life <= 0
        THEN Updated([aged EXCEPT !.isActive = FALSE], ps, FALSE, <<>>, <<>>, met)
        ELSE Collide(aged, ps, FirstHit(aged, ps, 1), met)

(***************************************************************************)
(* ServerBullet.update after gravity and the move: the bullet is at        *)
(* (x, y, z) with vertical velocity vy, over terrain of height             *)
(* terrainHeight.  Ground collision, bounds, life, players.                *)
(***************************************************************************)
Land(b, delta, ps, x, y, z, vy, terrainHeight) ==
    LET below == y < terrainHeight
        bounce == below /\ CanBounce(b)
        moved == [b EXCEPT
                    !.position = Vec(x, IF bounce THEN terrainHeight ELSE y, z),
                    !.velocity = Vec(b.velocity.x,
                                     IF bounce THEN BULLET_BOUNCE_DAMPENING(-vy) ELSE vy,
                                     b.velocity.z),
                    !.bounceCount = IF bounce THEN @ + 1 ELSE @]
        aged == [moved EXCEPT !.life = @ - delta]
        met == IF below THEN {[id |-> b.id, bounces |-> b.bounceCount]} ELSE {}
    IN  IF below /\ ~bounce
        THEN Updated([moved EXCEPT !.isActive = FALSE], ps, FALSE, <<>>, <<>>, met)
        ELSE IF moved.position.y > (WORLD_HEIGHT + 50) * U
        THEN Updated([moved EXCEPT !.isActive = FALSE], ps, FALSE, <<>>, <<>>, met)
        ELSE IF aged.life <= 0
        THEN Updated([aged EXCEPT !.isActive = FALSE], ps, FALSE, <<>>, <<>>, met)
        ELSE Collide(aged, ps, FirstHit(aged, ps, 1), met)

(***************************************************************************)
(* ServerBullet.update(delta) on an active bullet: gravity, the move, and  *)
(* the rest at the new position.                                           *)
(***************************************************************************)
Flight(b, delta, ps) ==
    LET vy == b.velocity.y + BULLET_GRAVITY * delta
        x == b.position.x + (b.velocity.x * delta) \div U
        y == b.position.y + (vy * delta) \div U
        z == b.position.z + (b.velocity.z * delta) \div U
    IN  Land(b, delta, ps, x, y, z, vy, TerrainHeightAt(x, z) * U)

(***************************************************************************)
(* A variant of ServerBullet.update without the test of isActive.          *)
(***************************************************************************)
UpdateUnguarded(b, delta, ps) == Flight(b, delta, ps)

(***************************************************************************)
(* ServerBullet.update(delta): a call on an inactive bullet returns false  *)
(* at once.                                                                *)
(***************************************************************************)
ServerBulletUpdate(b, delta, ps) ==
    IF ~b.isActive THEN Updated(b, ps, FALSE, <<>>, <<>>, {})
    ELSE Flight(b, delta, ps)


(***************************************************************************)
(* Math.sin and Math.cos of a yaw, in thousandths.  The yaw is kept in     *)
(* degrees; the clients of the model send quarter turns only.              *)
(***************************************************************************)
Sin(yaw) == CASE yaw = 0 -> 0 [] yaw = 90 -> U [] yaw = 180 -> 0 [] yaw = 270 -> -U

Cos(yaw) == CASE yaw = 0 -> U [] yaw = 90 -> 0 [] yaw = 180 -> -U [] yaw = 270 -> 0

(***************************************************************************)
(* Math.floor(Math.sqrt(n)) for n >= 0, by bisection of lo..hi.            *)
(***************************************************************************)
RECURSIVE SqrtBetween(_, _, _)
SqrtBetween(n, lo, hi) ==
    IF lo = hi THEN lo
    ELSE LET mid == (lo + hi + 1) \div 2
         IN  IF mid * mid <= n THEN SqrtBetween(n, mid, hi)
             ELSE SqrtBetween(n, lo, mid - 1)

Sqrt(n) == SqrtBetween(n, 0, 46340)

(***************************************************************************)
(* The state of the server: the last reading of Date.now(), the connected  *)
(* sockets, gameState (players and bullets are Maps, kept in insertion     *)
(* order) and the messages the last handler emitted.  Three history        *)
(* variables record what the bullets did: damaged holds the calls of       *)
(* takeDamage and collided the terrain collisions of the last step,        *)
(* retired the bullets that were deleted from the registry, as update left *)
(* them.                                                                   *)
(***************************************************************************)
VARIABLES now, sockets, nextSocketId, players, bullets, bulletIdCounter,
          lastUpdate, emitted, damaged, collided, retired

serverVars == <<now, sockets, nextSocketId, players, bullets, bulletIdCounter,
                lastUpdate, emitted, damaged, collided, retired>>

(***************************************************************************)
(* A call of a function of the program on its own: the arguments it is     *)
(* given and what it has returned.                                         *)
(***************************************************************************)
VARIABLES args, returned

callVars == <<args, returned>>

NoCall == args = <<>> /\ returned = <<>>

(***************************************************************************)
(* The state of the client page: the last reading of Date.now(), gameState *)
(* (main.js), the camera with the velocity and moveState of the player     *)
(* (player.js) under controls, the weapon system with its pool of bullets, *)
(* the pending setTimeout callbacks in the order they were set, and under  *)
(* page what the frame loop keeps between frames.  The history variable    *)
(* called records the calls the last step made to the weapon, the enemies  *)
(* and the player.  Meshes, colours, sounds and the HUD are not part of    *)
(* the state.                                                              *)
(***************************************************************************)
VARIABLES clock, gameState, controls, weaponSystem, timers, page, called

clientVars == <<clock, gameState, controls, weaponSystem, timers, page, called>>

NoPage ==
    /\ clock = 0
    /\ gameState = <<>>
    /\ controls = <<>>
    /\ weaponSystem = <<>>
    /\ timers = <<>>
    /\ page = [phase |-> "closed"]
    /\ called = <<>>

elsewhere == <<callVars, clientVars>>

vars == <<serverVars, callVars, clientVars>>

(***************************************************************************)
(* gameState.players.get(id): the index of the player in the registry,     *)
(* 0 when there is none.                                                   *)
(***************************************************************************)
PlayerIndex(ps, id) ==
    IF \E i \in 1..Len(ps) : ps[i].id = id
    THEN CHOOSE i \in 1..Len(ps) : ps[i].id = id
    ELSE 0

(***************************************************************************)
(* Map.delete(id) on a registry kept in insertion order.                   *)
(***************************************************************************)
RECURSIVE Without(_, _)
Without(reg, id) ==
    IF reg = <<>> THEN <<>>
    ELSE IF Head(reg).id = id THEN Tail(reg)
    ELSE <<Head(reg)>> \o Without(Tail(reg), id)

(***************************************************************************)
(* The payloads the model's clients send.  A client shoots from where its  *)
(* player is spawned, straight up: at HoverSpeed the bullet is back at the *)
(* height it was fired from one tick later, at LobSpeed it is in the air   *)
(* for its whole life, at SkySpeed it leaves the world.                    *)
(***************************************************************************)
Keys(forward, backward, left, right, jump) ==
    [forward |-> forward, backward |-> backward, left |-> left,
     right |-> right, jump |-> jump]

InputPayloads ==
    { [input |-> k, rotation |-> Vec(0, yaw, 0)] :
        k \in {Keys(FALSE, FALSE, FALSE, FALSE, TRUE)},
        yaw \in {0} }

SpawnPosition == Vec(0, TerrainHeightAt(0, 0) * U + PLAYER_HEIGHT, 0)

HoverSpeed == -BULLET_GRAVITY * ClockStep

LobSpeed == 40 * U

SkySpeed == 120 * U

DuelPayloads ==
    { [position |-> SpawnPosition, velocity |-> Vec(0, HoverSpeed, 0)] }

ShootPayloads ==
    { [position |-> SpawnPosition, velocity |-> Vec(0, vy, 0)] :
        vy \in {HoverSpeed, LobSpeed, SkySpeed} }

InitServer ==
    /\ now = StartTime
    /\ sockets = {}
    /\ nextSocketId = 1
    /\ players = <<>>
    /\ bullets = <<>>
    /\ bulletIdCounter = 0
    /\ lastUpdate = StartTime
    /\ emitted = <<>>
    /\ damaged = <<>>
    /\ collided = {}
    /\ retired = {}
    /\ NoCall
    /\ NoPage

(***************************************************************************)
(* io.on('connection') once the player is made: it is entered in the       *)
(* registry, the game state is sent to the socket and the others are told. *)
(***************************************************************************)
Join(player, all) ==
    /\ players' = all
    /\ emitted' =
         << [event |-> "game-state", to |-> player.id,
             playerId |-> player.id,
             players |-> [i \in 1..Len(all) |->
                            [id |-> all[i].id, position |-> all[i].position,
                             rotation |-> all[i].rotation,
                             health |-> all[i].health,
                             isAlive |-> all[i].isAlive]],
             worldSeed |-> WorldSeed],
            [event |-> "player-joined", id |-> player.id,
             position |-> player.position, rotation |-> player.rotation,
             health |-> player.health] >>

(***************************************************************************)
(* io.on('connection'): a socket with a fresh id connects.                 *)
(***************************************************************************)
Connection ==
    /\ nextSocketId <= MaxConnections
    /\ \E player \in {ServerPlayer(nextSocketId, now)} :
         Join(player, Append(players, player))
    /\ sockets' = sockets \cup {nextSocketId}
    /\ nextSocketId' = nextSocketId + 1
    /\ damaged' = <<>>
    /\ collided' = {}
    /\ UNCHANGED <<now, bullets, bulletIdCounter, lastUpdate, retired>>
    /\ UNCHANGED elsewhere

(***************************************************************************)
(* socket.on('player-input') of socket id with payload data and sequence   *)
(* number seq: the player after the handler.  RateLimited is the test of   *)
(* the rate limit and Jumps the test of the jump; RateLimitedLess and      *)
(* JumpsAnyway are variants of them, a limit of 15 ms and a jump from      *)
(* anywhere, that the properties of input are measured against.            *)
(***************************************************************************)
RateLimitedLess(p, t) == t - p.lastInputTime < 15

RateLimited(p, t) == t - p.lastInputTime < 16

JumpsAnyway(input, p) == input.jump

Jumps(input, p) == input.jump /\ p.isGrounded

OnPlayerInput(p, data, seq, t) ==
    IF ~p.isAlive THEN p
    ELSE IF RateLimited(p, t) THEN p
    ELSE
    LET rotation == data.rotation
        yaw == rotation.y
        input == data.input
        mx == (IF input.forward THEN -Sin(yaw) ELSE 0)
              + (IF input.backward THEN Sin(yaw) ELSE 0)
              + (IF input.left THEN -Cos(yaw) ELSE 0)
              + (IF input.right THEN Cos(yaw) ELSE 0)
        mz == (IF input.forward THEN -Cos(yaw) ELSE 0)
              + (IF input.backward THEN Cos(yaw) ELSE 0)
              + (IF input.left THEN Sin(yaw) ELSE 0)
              + (IF input.right THEN -Sin(yaw) ELSE 0)
        magnitude == Sqrt(mx * mx + mz * mz)
        moveX == IF magnitude > 0 THEN (mx * PLAYER_SPEED * U) \div magnitude ELSE mx
        moveZ == IF magnitude > 0 THEN (mz * PLAYER_SPEED * U) \div magnitude ELSE mz
        jump == Jumps(input, p)
    IN  [p EXCEPT !.lastInputTime = t,
                  !.rotation = rotation,
                  !.velocity = Vec(moveX, IF jump THEN JUMP_VELOCITY * U ELSE @.y, moveZ),
                  !.isGrounded = IF jump THEN FALSE ELSE @,
                  !.inputSequence = seq]

PlayerInput(id, data) ==
    /\ id \in sockets
    /\ LET i == PlayerIndex(players, id)
       IN  /\ i # 0
           /\ players' = [players EXCEPT
                            ![i] = OnPlayerInput(@, data, @.inputSequence + 1, now)]
    /\ emitted' = <<>>
    /\ damaged' = <<>>
    /\ collided' = {}
    /\ UNCHANGED <<now, sockets, nextSocketId, bullets, bulletIdCounter,
                   lastUpdate, retired>>
    /\ UNCHANGED elsewhere

(***************************************************************************)
(* socket.on('player-shoot').  ShotAccepted holds the tests that let the   *)
(* handler go on; ShotAcceptedEarly is a variant with a fire rate of 149.  *)
(***************************************************************************)
ShotAcceptedEarly(p, t) == p.isAlive /\ p.ammo > 0 /\ ~(t - p.lastShot < 149)

ShotAccepted(p, t) == p.isAlive /\ p.ammo > 0 /\ ~(t - p.lastShot < 150)

PlayerShoot(id, data) ==
    /\ id \in sockets
    /\ LET i == PlayerIndex(players, id)
       IN  /\ i # 0
           /\ IF ShotAccepted(players[i], now)
              THEN LET bulletId == <<id, bulletIdCounter + 1>>
                   IN  /\ players' = [players EXCEPT ![i].lastShot = now,
                                                     ![i].ammo = @ - 1]
                       /\ bulletIdCounter' = bulletIdCounter + 1
                       /\ bullets' = Append(bullets,
                                            ServerBullet(bulletId, data.position,
                                                         data.velocity, BULLET_DAMAGE, id))
                       /\ emitted' = << [event |-> "player-shot", playerId |-> id,
                                         bulletId |-> bulletId,
                                         position |-> data.position,
                                         velocity |-> data.velocity,
                                         timestamp |-> now] >>
              ELSE /\ emitted' = <<>>
                   /\ UNCHANGED <<players, bullets, bulletIdCounter>>
    /\ damaged' = <<>>
    /\ collided' = {}
    /\ UNCHANGED <<now, sockets, nextSocketId, lastUpdate, retired>>
    /\ UNCHANGED elsewhere

(***************************************************************************)
(* A variant of socket.on('player-reload') that fills the clip and leaves  *)
(* the reserve as it is.                                                   *)
(***************************************************************************)
PlayerReloadKept(id) ==
    /\ id \in sockets
    /\ LET i == PlayerIndex(players, id)
       IN  /\ i # 0
           /\ IF players[i].ammo >= AMMO_CAPACITY \/ players[i].totalAmmo <= 0
              THEN /\ emitted' = <<>>
                   /\ UNCHANGED players
              ELSE LET needed == AMMO_CAPACITY - players[i].ammo
                       available == Min(needed, players[i].totalAmmo)
                   IN  /\ players' = [players EXCEPT ![i].ammo = @ + available]
                       /\ emitted' = << [event |-> "player-reloaded", to |-> id,
                                         ammo |-> players[i].ammo + available,
                                         totalAmmo |-> players[i].totalAmmo] >>
    /\ damaged' = <<>>
    /\ collided' = {}
    /\ UNCHANGED <<now, sockets, nextSocketId, bullets, bulletIdCounter,
                   lastUpdate, retired>>
    /\ UNCHANGED elsewhere

(***************************************************************************)
(* socket.on('player-reload').  ReloadRejected is the test that ends the   *)
(* handler early; ReloadRejectedFull is a variant that looks at the clip   *)
(* only.                                                                   *)
(***************************************************************************)
ReloadRejectedFull(p) == p.ammo >= AMMO_CAPACITY

ReloadRejected(p) == p.ammo >= AMMO_CAPACITY \/ p.totalAmmo <= 0

PlayerReload(id) ==
    /\ id \in sockets
    /\ LET i == PlayerIndex(players, id)
       IN  /\ i # 0
           /\ IF ReloadRejected(players[i])
              THEN /\ emitted' = <<>>
                   /\ UNCHANGED players
              ELSE LET needed == AMMO_CAPACITY - players[i].ammo
                       available == Min(needed, players[i].totalAmmo)
                   IN  /\ players' = [players EXCEPT ![i].ammo = @ + available,
                                                     ![i].totalAmmo = @ - available]
                       /\ emitted' = << [event |-> "player-reloaded", to |-> id,
                                         ammo |-> players[i].ammo + available,
                                         totalAmmo |-> players[i].totalAmmo - available] >>
    /\ damaged' = <<>>
    /\ collided' = {}
    /\ UNCHANGED <<now, sockets, nextSocketId, bullets, bulletIdCounter,
                   lastUpdate, retired>>
    /\ UNCHANGED elsewhere

(***************************************************************************)
(* socket.on('disconnect').                                                *)
(***************************************************************************)
Disconnect(id) ==
    /\ id \in sockets
    /\ sockets' = sockets \ {id}
    /\ players' = Without(players, id)
    /\ emitted' = << [event |-> "player-left", id |-> id] >>
    /\ damaged' = <<>>
    /\ collided' = {}
    /\ UNCHANGED <<now, nextSocketId, bullets, bulletIdCounter, lastUpdate, retired>>
    /\ UNCHANGED elsewhere

(***************************************************************************)
(* A variant of Evicted that deletes nothing.                              *)
(***************************************************************************)
EvictedNever(r) == FALSE

(***************************************************************************)
(* The test of the bullet loop of gameLoop: a bullet whose update returned *)
(* false is deleted from the registry.                                     *)
(***************************************************************************)
Evicted(r) == ~r.ret

(***************************************************************************)
(* One turn of the bullet loop of gameLoop: r is what update gave for a    *)
(* bullet; acc holds the bullets kept and those deleted, the players, the  *)
(* events, the calls of takeDamage and the collisions so far.              *)
(***************************************************************************)
Sweep(acc, r) ==
    [bullets |-> IF Evicted(r) THEN acc.bullets ELSE Append(acc.bullets, r.bullet),
     deleted |-> IF Evicted(r) THEN acc.deleted \cup {r.bullet} ELSE acc.deleted,
     players |-> r.players,
     events |-> acc.events \o r.events,
     damaged |-> acc.damaged \o r.damaged,
     collided |-> acc.collided \cup r.collided]

(***************************************************************************)
(* The bullet loop of gameLoop from the i-th bullet of bs on: every bullet *)
(* is updated against the registry as the bullets before it left it.       *)
(***************************************************************************)
RECURSIVE UpdateBullets(_, _, _, _)
UpdateBullets(bs, i, delta, acc) ==
    IF i > Len(bs) THEN acc
    ELSE UpdateBullets(bs, i + 1, delta,
                       Sweep(acc, ServerBulletUpdate(bs[i], delta, acc.players)))

(***************************************************************************)
(* The player loop of gameLoop.                                            *)
(***************************************************************************)
UpdatePlayers(ps, delta) ==
    [i \in 1..Len(ps) |-> ServerPlayerUpdate(ps[i], delta)]

(***************************************************************************)
(* The end of gameLoop at time t: r holds the registries after the two     *)
(* loops; the game-update snapshot is broadcast.                           *)
(***************************************************************************)
Broadcast(t, r) ==
    /\ now' = t
    /\ lastUpdate' = t
    /\ players' = r.players
    /\ bullets' = r.bullets
    /\ damaged' = r.damaged
    /\ collided' = r.collided
    /\ retired' = retired \cup r.deleted
    /\ emitted' =
         r.events
         \o << [event |-> "game-update",
                players |-> [i \in 1..Len(r.players) |->
                               [id |-> r.players[i].id,
                                position |-> r.players[i].position,
                                rotation |-> r.players[i].rotation,
                                velocity |-> r.players[i].velocity,
                                health |-> r.players[i].health,
                                isAlive |-> r.players[i].isAlive,
                                inputSequence |-> r.players[i].inputSequence]],
                bullets |-> [i \in 1..Len(r.bullets) |->
                               [id |-> r.bullets[i].id,
                                position |-> r.bullets[i].position,
                                velocity |-> r.bullets[i].velocity,
                                isActive |-> r.bullets[i].isActive]],
                timestamp |-> t] >>
    /\ UNCHANGED <<sockets, nextSocketId, bulletIdCounter>>
    /\ UNCHANGED elsewhere

(***************************************************************************)
(* A variant of gameLoop that runs the bullet loop before the player loop. *)
(***************************************************************************)
PlayersAfter(r, delta) == [r EXCEPT !.players = UpdatePlayers(@, delta)]

gameLoopBulletsFirst(t) ==
    Broadcast(t, PlayersAfter(UpdateBullets(bullets, 1, t - lastUpdate,
                                            [bullets |-> <<>>, deleted |-> {},
                                             players |-> players,
                                             events |-> <<>>, damaged |-> <<>>,
                                             collided |-> {}]),
                              t - lastUpdate))

(***************************************************************************)
(* gameLoop(), run by setInterval, when Date.now() reads t.                *)
(***************************************************************************)
gameLoop(t) ==
    Broadcast(t, UpdateBullets(bullets, 1, t - lastUpdate,
                               [bullets |-> <<>>, deleted |-> {},
                                players |-> UpdatePlayers(players, t - lastUpdate),
                                events |-> <<>>, damaged |-> <<>>,
                                collided |-> {}]))

(***************************************************************************)
(* The steps of the server.  The clock is read at the ticks of the game    *)
(* loop, ClockStep apart; a handler that runs between two ticks reads the  *)
(* time of the tick before it.                                             *)
(***************************************************************************)
Tick ==
    /\ now + ClockStep <= MaxTime
    /\ gameLoop(now + ClockStep)

Sequenced(id, n) ==
    \E i \in 1..Len(players) : players[i].id = id /\ players[i].inputSequence < n

Input ==
    \E id \in sockets : \E data \in InputPayloads :
        Sequenced(id, MaxSequence) /\ PlayerInput(id, data)

Shoot ==
    /\ bulletIdCounter < MaxVolley
    /\ \E id \in sockets : \E data \in ShootPayloads : PlayerShoot(id, data)

Reload == \E id \in sockets : PlayerReload(id)

Leave == \E id \in sockets : Disconnect(id)

NextServer ==
    \/ Connection
    \/ Input
    \/ Shoot
    \/ Reload
    \/ Leave
    \/ Tick

SpecServer == InitServer /\ [][NextServer]_vars

(***************************************************************************)
(* The duel: the players only shoot at each other, for long enough that    *)
(* one of them dies.                                                       *)
(***************************************************************************)
Duel ==
    /\ bulletIdCounter < MaxShots
    /\ \E id \in sockets : \E data \in DuelPayloads : PlayerShoot(id, data)

NextDuel ==
    \/ Connection
    \/ Duel
    \/ Leave
    \/ Tick

SpecDuel == InitServer /\ [][NextDuel]_vars

(***************************************************************************)
(* The paced server: the clock is read at the Instants after StartTime, so *)
(* that two events can be 15, 16, 149 or 150 ms apart, and the game loop   *)
(* runs at any of them.  Two players are registered already and the first  *)
(* has used up some of its ammunition: Stock holds the clips and reserves  *)
(* it starts with, each of them left by some number of shots and reloads.  *)
(* The first player is the one that shoots and reloads (Gunners), the      *)
(* second the one that sends input (Runners).                              *)
(***************************************************************************)
Instants == {0, 15, 16, 149, 150, 166}

Stock == { <<AMMO_CAPACITY, TOTAL_AMMO>>, <<1, TOTAL_AMMO>>, <<0, TOTAL_AMMO>>,
           <<1, 0>>, <<0, 10>> }

Gunners == {1}

Runners == {2}

Veteran(p, stock) == [p EXCEPT !.ammo = stock[1], !.totalAmmo = stock[2]]

InitPaced ==
    /\ now = StartTime
    /\ sockets = {1, 2}
    /\ nextSocketId = 3
    /\ \E stock \in Stock :
          players = << Veteran(ServerPlayer(1, StartTime), stock),
                       ServerPlayer(2, StartTime) >>
    /\ bullets = <<>>
    /\ bulletIdCounter = 0
    /\ lastUpdate = StartTime
    /\ emitted = <<>>
    /\ damaged = <<>>
    /\ collided = {}
    /\ retired = {}
    /\ NoCall
    /\ NoPage

Pace ==
    /\ \E d \in Instants : StartTime + d > now /\ now' = StartTime + d
    /\ emitted' = <<>>
    /\ damaged' = <<>>
    /\ collided' = {}
    /\ UNCHANGED <<sockets, nextSocketId, players, bullets, bulletIdCounter,
                   lastUpdate, retired>>
    /\ UNCHANGED elsewhere

Beat ==
    /\ now > lastUpdate
    /\ gameLoop(now)

Press ==
    \E id \in Runners : \E data \in InputPayloads :
        Sequenced(id, MaxInputs) /\ PlayerInput(id, data)

Fire ==
    /\ bulletIdCounter < MaxVolley
    /\ \E id \in Gunners : \E data \in DuelPayloads : PlayerShoot(id, data)

Refill == \E id \in Gunners : PlayerReload(id)

NextPaced ==
    \/ Pace
    \/ Beat
    \/ Press
    \/ Fire
    \/ Refill

SpecPaced == InitPaced /\ [][NextPaced]_vars

(***************************************************************************)
(* new PerlinNoise(seed) on its own, for the seeds within MaxSeed of 0,    *)
(* the seed of the world and the seed the constructor takes by default.    *)
(***************************************************************************)
MaxSeed == 60

DefaultSeed == 12345

Seeds == (-MaxSeed..MaxSeed) \cup {WorldSeed, DefaultSeed}

ServerAtRest ==
    /\ now = StartTime
    /\ sockets = {}
    /\ nextSocketId = 1
    /\ players = <<>>
    /\ bullets = <<>>
    /\ bulletIdCounter = 0
    /\ lastUpdate = StartTime
    /\ emitted = <<>>
    /\ damaged = <<>>
    /\ collided = {}
    /\ retired = {}

(***************************************************************************)
(* The server stopped, for the runs of the client: nobody is connected, no *)
(* connection is taken any more and the clock stands at MaxTime.           *)
(***************************************************************************)
ServerOff ==
    /\ now = MaxTime
    /\ sockets = {}
    /\ nextSocketId = MaxConnections + 1
    /\ players = <<>>
    /\ bullets = <<>>
    /\ bulletIdCounter = 0
    /\ lastUpdate = MaxTime
    /\ emitted = <<>>
    /\ damaged = <<>>
    /\ collided = {}
    /\ retired = {}

InitPerlin ==
    /\ ServerAtRest
    /\ NoPage
    /\ args \in { [seed |-> seed] : seed \in Seeds }
    /\ returned = <<>>

PerlinNoise ==
    /\ returned = <<>>
    /\ returned' = generatePermutation(args.seed)
    /\ UNCHANGED <<serverVars, clientVars, args>>

NextPerlin == PerlinNoise

SpecPerlin == InitPerlin /\ [][NextPerlin]_vars

(***************************************************************************)
(* The client's world (world.js).  BLOCK_TYPES, and the water level of     *)
(* getBlockType.                                                           *)
(***************************************************************************)
AIR == 0
GRASS == 1
DIRT == 2
STONE == 3
WATER == 4
SAND == 5
SNOW == 6
TREE == 7

waterLevel == 15

(***************************************************************************)
(* Math.floor(20 + heightNoise * 20) of getBlockType and of the enemies,   *)
(* for a column of whole coordinates.  The client's generator is built     *)
(* from the same seed by the same code as the server's.                    *)
(***************************************************************************)
BaseHeight(x, z) == (20 * FS + octaveNoise(x * U, z * U, 4, 500, 10) * 20) \div FS

(***************************************************************************)
(* A variant of getBlockType whose water stops one block below waterLevel. *)
(***************************************************************************)
RECURSIVE BlockOfShallow(_, _, _, _, _)
BlockOfShallow(y, baseHeight, moistureNoise, temperatureNoise, random) ==
    IF y > baseHeight + 10 THEN AIR
    ELSE IF y < waterLevel /\ y > baseHeight THEN WATER
    ELSE IF y <= 5 THEN STONE
    ELSE IF y <= baseHeight
    THEN IF temperatureNoise > 3000 /\ moistureNoise < -2000 /\ y = baseHeight
         THEN SAND
         ELSE IF temperatureNoise < -3000 /\ y = baseHeight THEN SNOW
         ELSE IF y = baseHeight THEN GRASS
         ELSE IF y > baseHeight - 3 THEN DIRT
         ELSE STONE
    ELSE IF /\ y = baseHeight + 1
            /\ BlockOfShallow(y - 1, baseHeight, moistureNoise, temperatureNoise,
                        random) = GRASS
            /\ random < 10
            /\ temperatureNoise > -2000
    THEN TREE
    ELSE AIR

(***************************************************************************)
(* A variant of getBlockType that puts water at every height up to         *)
(* waterLevel, the terrain of the column included.                         *)
(***************************************************************************)
RECURSIVE BlockOfFlooded(_, _, _, _, _)
BlockOfFlooded(y, baseHeight, moistureNoise, temperatureNoise, random) ==
    IF y > baseHeight + 10 THEN AIR
    ELSE IF y <= waterLevel THEN WATER
    ELSE IF y <= 5 THEN STONE
    ELSE IF y <= baseHeight
    THEN IF temperatureNoise > 3000 /\ moistureNoise < -2000 /\ y = baseHeight
         THEN SAND
         ELSE IF temperatureNoise < -3000 /\ y = baseHeight THEN SNOW
         ELSE IF y = baseHeight THEN GRASS
         ELSE IF y > baseHeight - 3 THEN DIRT
         ELSE STONE
    ELSE IF /\ y = baseHeight + 1
            /\ BlockOfFlooded(y - 1, baseHeight, moistureNoise, temperatureNoise,
                        random) = GRASS
            /\ random < 10
            /\ temperatureNoise > -2000
    THEN TREE
    ELSE AIR

(***************************************************************************)
(* VoxelWorld.getBlockType(x, y, z) after the three noise samples are      *)
(* taken.  random is what Math.random() returns if the tree test comes to  *)
(* call it, in thousandths.                                                *)
(***************************************************************************)
RECURSIVE BlockOf(_, _, _, _, _)
BlockOf(y, baseHeight, moistureNoise, temperatureNoise, random) ==
    IF y > baseHeight + 10 THEN AIR
    ELSE IF y <= waterLevel /\ y > baseHeight THEN WATER
    ELSE IF y <= 5 THEN STONE
    ELSE IF y <= baseHeight
    THEN IF temperatureNoise > 3000 /\ moistureNoise < -2000 /\ y = baseHeight
         THEN SAND
         ELSE IF temperatureNoise < -3000 /\ y = baseHeight THEN SNOW
         ELSE IF y = baseHeight THEN GRASS
         ELSE IF y > baseHeight - 3 THEN DIRT
         ELSE STONE
    ELSE IF /\ y = baseHeight + 1
            /\ BlockOf(y - 1, baseHeight, moistureNoise, temperatureNoise,
                        random) = GRASS
            /\ random < 10
            /\ temperatureNoise > -2000
    THEN TREE
    ELSE AIR

getBlockType(x, y, z, random) ==
    BlockOf(y, BaseHeight(x, z),
            octaveNoise(x * U, z * U, 3, 600, 20),
            octaveNoise(x * U, z * U, 2, 400, 15),
            random)

(***************************************************************************)
(* getTerrainHeight(x, z) of player.js, which main.js imports as           *)
(* playerGetTerrainHeight: the scan from the top of the world down to the  *)
(* first block that is not AIR.  x and z are positions (scale U).  Every   *)
(* call of getBlockType in the scan takes the noise of the same column,    *)
(* and one of them at most comes to call Math.random().                    *)
(***************************************************************************)
RECURSIVE ScanDown(_, _, _, _, _)
ScanDown(y, baseHeight, moistureNoise, temperatureNoise, random) ==
    IF y < 0 THEN 0
    ELSE IF BlockOf(y, baseHeight, moistureNoise, temperatureNoise, random) # AIR
    THEN y + 1
    ELSE ScanDown(y - 1, baseHeight, moistureNoise, temperatureNoise, random)

playerGetTerrainHeight(x, z, random) ==
    ScanDown(WORLD_HEIGHT - 1, BaseHeight(x \div U, z \div U),
             octaveNoise((x \div U) * U, (z \div U) * U, 3, 600, 20),
             octaveNoise((x \div U) * U, (z \div U) * U, 2, 400, 15),
             random)

(***************************************************************************)
(* Calls of the terrain functions on their own: getBlockType of the        *)
(* client, getTerrainHeight of the server and the scan of the client, on   *)
(* the block (x, y, z) of args.  Columns holds the spawn column and its    *)
(* neighbour, a column under water, a cold one and a sandy one; Draws      *)
(* holds the values of Math.random(), in thousandths.                      *)
(***************************************************************************)
MaxCalls == 2

Columns == { <<0, 0>>, <<1, 0>>, <<3, 10>>, <<0, 14>>, <<-75, 30>> }

Levels == {0, 5, 6, 13, 14, 15, 16, 17, 18, 19, 20, 21, 22, 24, 25, 30, 31, 35, 63}

Draws == {5, 500}

InitTerrain ==
    /\ ServerAtRest
    /\ NoPage
    /\ args \in { [x |-> c[1], y |-> y, z |-> c[2]] : c \in Columns, y \in Levels }
    /\ returned = <<>>

Returning(name, value) == Append(returned, [of |-> name, value |-> value])

CallGetBlockType ==
    /\ Len(returned) < MaxCalls
    /\ \E random \in Draws :
          returned' = Returning("getBlockType",
                                getBlockType(args.x, args.y, args.z, random))
    /\ UNCHANGED <<serverVars, clientVars, args>>

CallGetTerrainHeight ==
    /\ Len(returned) < MaxCalls
    /\ returned' = Returning("getTerrainHeight",
                             getTerrainHeight(args.x * U, args.z * U))
    /\ UNCHANGED <<serverVars, clientVars, args>>

CallPlayerGetTerrainHeight ==
    /\ Len(returned) < MaxCalls
    /\ \E random \in Draws :
          returned' = Returning("playerGetTerrainHeight",
                                playerGetTerrainHeight(args.x * U, args.z * U,
                                                       random))
    /\ UNCHANGED <<serverVars, clientVars, args>>

NextTerrain ==
    \/ CallGetBlockType
    \/ CallGetTerrainHeight
    \/ CallPlayerGetTerrainHeight

SpecTerrain == InitTerrain /\ [][NextTerrain]_vars

(***************************************************************************)
(* CONFIG of config.js where the client differs from the server or adds to *)
(* it, and the rifle of the weapon table.  The delta of a frame is 0.0166  *)
(* seconds: FrameDelta counts ten-thousandths of a second.                 *)
(***************************************************************************)
CHUNK_SIZE == 32
RENDER_DISTANCE == 3
BULLET_SPEED == 100
FrameDelta == 166

rifle == [damage |-> 40, fireRate |-> 150, reloadTime |-> 2000]

(***************************************************************************)
(* The reading of Date.now() when the world has been initialized, and the  *)
(* time between two frames of requestAnimationFrame.                       *)
(***************************************************************************)
PageStart == 100000
FrameMs == 17

(***************************************************************************)
(* Orientations of the camera: the axes of the camera in the world, in     *)
(* thousandths.  Down looks at the ground under the player and Downhill at *)
(* the spot 32 blocks along +x where the terrain lies 7.8 units lower.     *)
(***************************************************************************)
Down == [forward |-> Vec(0, -1000, 0), up |-> Vec(0, 0, -1000),
         right |-> Vec(1000, 0, 0)]

Downhill == [forward |-> Vec(972, -237, 0), up |-> Vec(237, 972, 0),
             right |-> Vec(0, 0, 1000)]

(***************************************************************************)
(* setTimeout(callback, delay) at Date.now() = t.                          *)
(***************************************************************************)
setTimeout(ts, callback, delay, t) ==
    Append(ts, [callback |-> callback, due |-> t + delay])

(***************************************************************************)
(* The client as one record, the form its functions take it in and return  *)
(* it in.                                                                  *)
(***************************************************************************)
Client ==
    [gameState |-> gameState, controls |-> controls,
     weaponSystem |-> weaponSystem, timers |-> timers, page |-> page,
     called |-> <<>>]

(***************************************************************************)
(* The state after DOMContentLoaded and initializeWorld: gameState of      *)
(* main.js, the camera on the terrain of the spawn column, a weapon system *)
(* with an empty pool and the five timers of the first enemies.  Health is *)
(* counted in half points.                                                 *)
(***************************************************************************)
LoadedAround(cx, cz) ==
    { <<x, z>> : x \in (cx - RENDER_DISTANCE)..(cx + RENDER_DISTANCE),
                 z \in (cz - RENDER_DISTANCE)..(cz + RENDER_DISTANCE) }

InitialGameState ==
    [health |-> MAX_HEALTH * HP,
     ammo |-> AMMO_CAPACITY,
     totalAmmo |-> TOTAL_AMMO,
     score |-> 0,
     enemies |-> <<>>,
     bullets |-> <<>>,
     loadedChunks |-> LoadedAround(0, 0)]

InitialControls(random) ==
    [position |-> Vec(0, playerGetTerrainHeight(0, 0, random) * U + PLAYER_HEIGHT, 0),
     velocity |-> Vec(0, 0, 0),
     moveState |-> [forward |-> FALSE, backward |-> FALSE,
                    left |-> FALSE, right |-> FALSE],
     canJump |-> FALSE,
     isLocked |-> FALSE]

WeaponSystem ==
    [lastShot |-> 0,
     isReloading |-> FALSE,
     bulletPool |-> [available |-> <<>>, capacity |-> 50, created |-> 0]]

FirstEnemies(t) ==
    [i \in 1..5 |-> [callback |-> "spawnEnemy", due |-> t + (i - 1) * 1500 + 1000]]

(***************************************************************************)
(* voxelWorld.chunks, the cache of generateChunk: the chunk object of a    *)
(* key is known by the number it was made under.  initializeWorld makes    *)
(* the chunks around the origin, x outermost.                              *)
(***************************************************************************)
Before(j, k) == j[1] < k[1] \/ (j[1] = k[1] /\ j[2] <= k[2])

Generated(chunks, keys) ==
    [k \in DOMAIN chunks \cup keys |->
        IF k \in DOMAIN chunks THEN chunks[k]
        ELSE Cardinality(DOMAIN chunks)
             + Cardinality({j \in keys \ DOMAIN chunks : Before(j, k)})]

InitialPage(t) ==
    [phase |-> "running",
     frameAt |-> t,
     timeSinceLastEnvDamageCheck |-> 0,
     lastPlayerChunkKey |-> <<>>,
     nextEnemy |-> 1,
     frames |-> 0,
     chunks |-> Generated(<<>>, LoadedAround(0, 0))]

(***************************************************************************)
(* A variant of acquireBullet that hands out the last bullet of the pool   *)
(* and leaves it in the pool.                                              *)
(***************************************************************************)
acquireBulletKept(pool) ==
    IF Len(pool.available) > 0
    THEN [bullet |-> pool.available[Len(pool.available)], pool |-> pool]
    ELSE [bullet |-> pool.created + 1,
          pool |-> [pool EXCEPT !.created = @ + 1]]

(***************************************************************************)
(* The pool of bullets.  A bullet is known by the number it was created    *)
(* under.                                                                  *)
(***************************************************************************)
acquireBullet(pool) ==
    IF Len(pool.available) > 0
    THEN [bullet |-> pool.available[Len(pool.available)],
          pool |-> [pool EXCEPT !.available = SubSeq(@, 1, Len(@) - 1)]]
    ELSE [bullet |-> pool.created + 1,
          pool |-> [pool EXCEPT !.created = @ + 1]]

releaseBullet(pool, bullet) ==
    IF Len(pool.available) < pool.capacity
    THEN [pool EXCEPT !.available = Append(@, bullet)]
    ELSE pool

(***************************************************************************)
(* Bullet.init(position, direction, damage): the velocity is the direction *)
(* times BULLET_SPEED, in thousandths of a unit a second; the life is kept *)
(* in ten-thousandths of a second.                                         *)
(***************************************************************************)
BulletInit(id, position, direction, damage) ==
    [id |-> id,
     position |-> position,
     previousPosition |-> position,
     velocity |-> Vec(direction.x * BULLET_SPEED, direction.y * BULLET_SPEED,
                      direction.z * BULLET_SPEED),
     damage |-> damage,
     life |-> 3 * 10000,
     active |-> TRUE]

(***************************************************************************)
(* weaponMesh.getWorldPosition: the weapon hangs at (0.3, -0.2, -0.5) in   *)
(* the frame of the camera, which looks along its own -z.                  *)
(***************************************************************************)
Muzzle(position, look) ==
    Vec(position.x + (300 * look.right.x - 200 * look.up.x + 500 * look.forward.x) \div U,
        position.y + (300 * look.right.y - 200 * look.up.y + 500 * look.forward.y) \div U,
        position.z + (300 * look.right.z - 200 * look.up.z + 500 * look.forward.z) \div U)

(***************************************************************************)
(* WeaponSystem.canShoot() at Date.now() = t.                              *)
(***************************************************************************)
canShoot(c, t) ==
    /\ ~c.weaponSystem.isReloading
    /\ c.gameState.ammo > 0
    /\ t - c.weaponSystem.lastShot > rifle.fireRate

(***************************************************************************)
(* WeaponSystem.fireWeapon() at Date.now() = t with the camera at look.    *)
(* The three draws of the spread are 0.5 each, which leaves the direction  *)
(* of the camera as it is.  The call and what it returned are recorded.    *)
(***************************************************************************)
fireWeapon(c, look, t) ==
    IF canShoot(c, t)
    THEN LET got == acquireBullet(c.weaponSystem.bulletPool)
         IN  [c EXCEPT !.weaponSystem.lastShot = t,
                       !.weaponSystem.bulletPool = got.pool,
                       !.gameState.bullets =
                           Append(@, BulletInit(got.bullet,
                                                Muzzle(c.controls.position, look),
                                                look.forward, rifle.damage)),
                       !.gameState.ammo = @ - 1,
                       !.called = Append(@, [of |-> "fireWeapon", value |-> TRUE])]
    ELSE [c EXCEPT !.called = Append(@, [of |-> "fireWeapon", value |-> FALSE])]

(***************************************************************************)
(* A variant of the guard of reload that does not look at the reload in    *)
(* progress.                                                               *)
(***************************************************************************)
reloadRejectedIdle(c) ==
    \/ c.gameState.totalAmmo <= 0
    \/ c.gameState.ammo = AMMO_CAPACITY

(***************************************************************************)
(* WeaponSystem.reload() at Date.now() = t, and the callback it sets.      *)
(***************************************************************************)
reloadRejected(c) ==
    \/ c.weaponSystem.isReloading
    \/ c.gameState.totalAmmo <= 0
    \/ c.gameState.ammo = AMMO_CAPACITY

reload(c, t) ==
    IF reloadRejected(c)
    THEN [c EXCEPT !.called = Append(@, [of |-> "reload", value |-> FALSE])]
    ELSE [c EXCEPT !.weaponSystem.isReloading = TRUE,
                   !.timers = setTimeout(@, "transfer", rifle.reloadTime, t),
                   !.called = Append(@, [of |-> "reload", value |-> TRUE])]

transfer(c) ==
    LET needed == AMMO_CAPACITY - c.gameState.ammo
        available == Min(needed, c.gameState.totalAmmo)
    IN  [c EXCEPT !.gameState.ammo = @ + available,
                  !.gameState.totalAmmo = @ - available,
                  !.weaponSystem.isReloading = FALSE,
                  !.called = Append(@, [of |-> "transfer", value |-> available])]

(***************************************************************************)
(* Box3.intersectsSphere for the block (bx, by, bz) and a sphere of the    *)
(* given radius: the point of the block nearest to the centre lies within  *)
(* the radius.                                                             *)
(***************************************************************************)
Clamp(v, lo, hi) == Max(lo, Min(hi, v))

BlockTouches(bx, by, bz, centre, radius) ==
    LET dx == centre.x - Clamp(centre.x, bx * U, (bx + 1) * U)
        dy == centre.y - Clamp(centre.y, by * U, (by + 1) * U)
        dz == centre.z - Clamp(centre.z, bz * U, (bz + 1) * U)
    IN  /\ Abs(dx) <= radius
        /\ Abs(dy) <= radius
        /\ Abs(dz) <= radius
        /\ dx * dx + dy * dy + dz * dz <= radius * radius

(***************************************************************************)
(* checkTerrainCollision(position, radius) of player.js: one of the 27     *)
(* blocks around the position is solid and touches the sphere.             *)
(***************************************************************************)
checkTerrainCollision(position, radius, random) ==
    \E dx \in -1..1 : \E dy \in -1..1 : \E dz \in -1..1 :
        /\ getBlockType(position.x \div U + dx, position.y \div U + dy,
                        position.z \div U + dz, random) \notin {AIR, WATER}
        /\ BlockTouches(position.x \div U + dx, position.y \div U + dy,
                        position.z \div U + dz, position, radius)

(***************************************************************************)
(* updatePlayerMovement(delta) of player.js.  The horizontal velocity is   *)
(* set from the keys or damped, and applied, whole or by one axis if       *)
(* the new position collides; gravity is applied, the player is placed on  *)
(* the terrain if below it, and an upward move into a block is undone.     *)
(* random is what Math.random() returns to the tree tests of the frame.    *)
(***************************************************************************)
HeadOf(position) == Vec(position.x, position.y + PLAYER_HEIGHT \div 2, position.z)

Ceiling(c, oldY, random) ==
    IF /\ getBlockType(c.controls.position.x \div U,
                       (c.controls.position.y + PLAYER_HEIGHT \div 2) \div U,
                       c.controls.position.z \div U, random) # AIR
       /\ checkTerrainCollision(HeadOf(c.controls.position), 300, random)
    THEN [c EXCEPT !.controls.position.y = Min(@, oldY),
                   !.controls.velocity.y = Min(0, @)]
    ELSE c

(***************************************************************************)
(* A variant of the ground test of updatePlayerMovement that stops the     *)
(* fall where the player is.                                               *)
(***************************************************************************)
GroundedSunk(c, x, y, z, vx, vy, vz, terrainHeight) ==
    IF y < terrainHeight + PLAYER_HEIGHT
    THEN [c EXCEPT !.controls.position = Vec(x, y, z),
                   !.controls.velocity = Vec(vx, 0, vz),
                   !.controls.canJump = TRUE]
    ELSE [c EXCEPT !.controls.position = Vec(x, y, z),
                   !.controls.velocity = Vec(vx, vy, vz),
                   !.controls.canJump = FALSE]

Grounded(c, x, y, z, vx, vy, vz, terrainHeight) ==
    IF y < terrainHeight + PLAYER_HEIGHT
    THEN [c EXCEPT !.controls.position = Vec(x, terrainHeight + PLAYER_HEIGHT, z),
                   !.controls.velocity = Vec(vx, 0, vz),
                   !.controls.canJump = TRUE]
    ELSE [c EXCEPT !.controls.position = Vec(x, y, z),
                   !.controls.velocity = Vec(vx, vy, vz),
                   !.controls.canJump = FALSE]

Stepped(c, old, x, z, vx, vy, vz, random) ==
    Ceiling(Grounded(c, x, old.y + (vy * FrameDelta) \div 10000, z, vx, vy, vz,
                     playerGetTerrainHeight(x, z, random) * U),
            old.y, random)

Slid(c, old, x, z, vx, vy, vz, random) ==
    IF x = old.x /\ z = old.z
    THEN Stepped(c, old, x, z, vx, vy, vz, random)
    ELSE IF checkTerrainCollision(Vec(x, old.y, z), 500, random)
    THEN Stepped(c, old,
                 IF checkTerrainCollision(Vec(x, old.y, old.z), 500, random)
                 THEN old.x ELSE x,
                 IF checkTerrainCollision(Vec(old.x, old.y, z), 500, random)
                 THEN old.z ELSE z,
                 vx, vy, vz, random)
    ELSE Stepped(c, old, x, z, vx, vy, vz, random)

(***************************************************************************)
(* The horizontal velocity of updatePlayerMovement.  direction is the keys *)
(* held, normalized: 1000 along one axis, 707 along each of two.  The      *)
(* camera has not been turned: it looks along -z and its right is +x.      *)
(* With no key held the velocity is damped.                                *)
(***************************************************************************)
Axis(plus, minus) == (IF plus THEN 1 ELSE 0) - (IF minus THEN 1 ELSE 0)

Normalized(d, other) == IF other = 0 THEN d * 1000 ELSE d * 707

Steered(c) ==
    LET dz == Axis(c.controls.moveState.forward, c.controls.moveState.backward)
        dx == Axis(c.controls.moveState.right, c.controls.moveState.left)
    IN  IF dz = 0 /\ dx = 0
        THEN [x |-> c.controls.velocity.x
                      - (c.controls.velocity.x * FrameDelta) \div 1000,
              z |-> c.controls.velocity.z
                      - (c.controls.velocity.z * FrameDelta) \div 1000]
        ELSE [x |-> Normalized(dx, dz) * PLAYER_SPEED,
              z |-> -Normalized(dz, dx) * PLAYER_SPEED]

updatePlayerMovement(c, random) ==
    LET old == c.controls.position
        vx == Steered(c).x
        vy == c.controls.velocity.y + (GRAVITY * FrameDelta) \div 10
        vz == Steered(c).z
    IN  IF ~c.controls.isLocked THEN c
        ELSE Slid(c, old, old.x + (vx * FrameDelta) \div 10000,
                  old.z + (vz * FrameDelta) \div 10000, vx, vy, vz, random)

(***************************************************************************)
(* The Space branch of onKeyDown.                                          *)
(***************************************************************************)
jump(c) ==
    IF c.controls.canJump
    THEN [c EXCEPT !.controls.velocity.y = JUMP_VELOCITY * U,
                   !.controls.canJump = FALSE,
                   !.called = Append(@, [of |-> "jump", value |-> TRUE])]
    ELSE [c EXCEPT !.called = Append(@, [of |-> "jump", value |-> FALSE])]

(***************************************************************************)
(* onKeyDown(event, weaponSystem) of player.js at Date.now() = t, and      *)
(* onKeyUp(event).                                                         *)
(***************************************************************************)
onKeyDown(c, code, t) ==
    CASE code = "KeyW" -> [c EXCEPT !.controls.moveState.forward = TRUE]
      [] code = "KeyA" -> [c EXCEPT !.controls.moveState.left = TRUE]
      [] code = "KeyS" -> [c EXCEPT !.controls.moveState.backward = TRUE]
      [] code = "KeyD" -> [c EXCEPT !.controls.moveState.right = TRUE]
      [] code = "Space" -> jump(c)
      [] code = "KeyR" -> reload(c, t)

onKeyUp(c, code) ==
    CASE code = "KeyW" -> [c EXCEPT !.controls.moveState.forward = FALSE]
      [] code = "KeyA" -> [c EXCEPT !.controls.moveState.left = FALSE]
      [] code = "KeyS" -> [c EXCEPT !.controls.moveState.backward = FALSE]
      [] code = "KeyD" -> [c EXCEPT !.controls.moveState.right = FALSE]
      [] OTHER -> c

(***************************************************************************)
(* handlePlayerDeath of main.js: the pointer is released and the page is   *)
(* left for a new one; and checkEnvironmentalDamage: half a point of       *)
(* health for a player whose feet are in water.                            *)
(***************************************************************************)
handlePlayerDeath(c) ==
    [c EXCEPT !.controls.isLocked = FALSE,
              !.page.phase = "over",
              !.called = Append(@, [of |-> "handlePlayerDeath", value |-> c.gameState.score])]

checkEnvironmentalDamage(c, random) ==
    IF /\ getBlockType(c.controls.position.x \div U,
                       (c.controls.position.y - PLAYER_HEIGHT + 100) \div U,
                       c.controls.position.z \div U, random) = WATER
       /\ c.gameState.health > 0
    THEN IF c.gameState.health - 1 <= 0
         THEN handlePlayerDeath([c EXCEPT !.gameState.health = @ - 1])
         ELSE [c EXCEPT !.gameState.health = @ - 1]
    ELSE c

(***************************************************************************)
(* updateChunks of main.js, called by animate when the camera is in the    *)
(* chunk key and was not before: every chunk within RENDER_DISTANCE that   *)
(* is not loaded is taken from generateChunk, which makes and caches the   *)
(* chunks it does not hold, and is loaded; then every loaded chunk that is *)
(* not within RENDER_DISTANCE is unloaded.                                 *)
(***************************************************************************)
Unloaded(loaded, requiredChunks) ==
    loaded \ {k \in loaded : k \notin requiredChunks}

(***************************************************************************)
(* A variant of updateChunks that loads the chunks around the camera and   *)
(* unloads none.                                                           *)
(***************************************************************************)
updateChunksKeeping(c, key) ==
    IF key # c.page.lastPlayerChunkKey
    THEN [c EXCEPT !.gameState.loadedChunks = @ \cup LoadedAround(key[1], key[2]),
                   !.page.chunks =
                       Generated(@, LoadedAround(key[1], key[2])
                                      \ c.gameState.loadedChunks),
                   !.page.lastPlayerChunkKey = key]
    ELSE c

updateChunks(c, key) ==
    IF key # c.page.lastPlayerChunkKey
    THEN [c EXCEPT !.gameState.loadedChunks =
                       Unloaded(@ \cup (LoadedAround(key[1], key[2]) \ @),
                                LoadedAround(key[1], key[2])),
                   !.page.chunks =
                       Generated(@, LoadedAround(key[1], key[2])
                                      \ c.gameState.loadedChunks),
                   !.page.lastPlayerChunkKey = key]
    ELSE c

(***************************************************************************)
(* Vector3.normalize, in thousandths, for a difference of two positions.   *)
(* Long differences are measured in hundredths of a unit, so that the      *)
(* squares fit 32 bits.                                                    *)
(***************************************************************************)
LengthOf(d) ==
    IF Abs(d.x) < 20000 /\ Abs(d.y) < 20000 /\ Abs(d.z) < 20000
    THEN Sqrt(d.x * d.x + d.y * d.y + d.z * d.z)
    ELSE 10 * Sqrt((d.x \div 10) * (d.x \div 10) + (d.y \div 10) * (d.y \div 10)
                   + (d.z \div 10) * (d.z \div 10))

Scale(d, length) ==
    IF length = 0 THEN Vec(0, 0, 0)
    ELSE Vec((d.x * 1000) \div length, (d.y * 1000) \div length,
             (d.z * 1000) \div length)

Normalize(d) == Scale(d, LengthOf(d))

Minus(a, b) == Vec(a.x - b.x, a.y - b.y, a.z - b.z)

(***************************************************************************)
(* Enemy.getTerrainHeight(x, z) and new Enemy(x, z), the enemy created     *)
(* under the number id.                                                    *)
(***************************************************************************)
enemyGetTerrainHeight(x, z) ==
    (20 * FS + octaveNoise(x, z, 4, 500, 10) * 20) \div FS

Enemy(id, x, z) ==
    [id |-> id,
     health |-> 50,
     lastAttack |-> 0,
     position |-> Vec(x, (enemyGetTerrainHeight(x, z) + 1) * U, z),
     targetPosition |-> Vec(x, (enemyGetTerrainHeight(x, z) + 1) * U, z)]

(***************************************************************************)
(* position.distanceTo(playerPosition) < 2.5.                              *)
(***************************************************************************)
WithinReach(a, b) ==
    /\ Abs(a.x - b.x) < 2500
    /\ Abs(a.y - b.y) < 2500
    /\ Abs(a.z - b.z) < 2500
    /\ (a.x - b.x) * (a.x - b.x) + (a.y - b.y) * (a.y - b.y)
         + (a.z - b.z) * (a.z - b.z) < 2500 * 2500

(***************************************************************************)
(* Enemy.update(delta, playerPosition) at Date.now() = t, up to the        *)
(* attack: the target moves at speed 2 toward the player and onto the      *)
(* terrain, and the mesh follows it by a tenth of the way.                 *)
(***************************************************************************)
Followed(e, x, z) ==
    [e EXCEPT !.targetPosition = Vec(x, (enemyGetTerrainHeight(x, z) + 1) * U, z),
              !.position =
                  Vec(@.x + (x - @.x) \div 10,
                      @.y + ((enemyGetTerrainHeight(x, z) + 1) * U - @.y) \div 10,
                      @.z + (z - @.z) \div 10)]

Chased(e, direction) ==
    Followed(e, e.targetPosition.x + (direction.x * 2 * FrameDelta) \div 10000,
             e.targetPosition.z + (direction.z * 2 * FrameDelta) \div 10000)

(***************************************************************************)
(* Enemy.attackPlayer().                                                   *)
(***************************************************************************)
attackPlayer(c, e) ==
    [c EXCEPT !.gameState.health = @ - 20 * HP,
              !.called = Append(@, [of |-> "attackPlayer", enemy |-> e.id])]

(***************************************************************************)
(* Enemy.update for the enemy at index i of gameState.enemies, and the     *)
(* forEach of animate over the enemies.                                    *)
(***************************************************************************)
Struck(c, i, e, t) ==
    IF WithinReach(e.position, c.controls.position) /\ t - e.lastAttack > 2000
    THEN attackPlayer([c EXCEPT !.gameState.enemies[i] = [e EXCEPT !.lastAttack = t]], e)
    ELSE [c EXCEPT !.gameState.enemies[i] = e]

enemyUpdate(c, i, t) ==
    Struck(c, i,
           Chased(c.gameState.enemies[i],
                  Normalize(Minus(c.controls.position,
                                  c.gameState.enemies[i].position))),
           t)

RECURSIVE UpdateEnemies(_, _, _)
UpdateEnemies(c, i, t) ==
    IF i > Len(c.gameState.enemies) THEN c
    ELSE UpdateEnemies(enemyUpdate(c, i, t), i + 1, t)

(***************************************************************************)
(* Removal of the element at index i, as splice(i, 1) does it.             *)
(***************************************************************************)
Splice(s, i) == SubSeq(s, 1, i - 1) \o SubSeq(s, i + 1, Len(s))

(***************************************************************************)
(* A variant of Enemy.takeDamage whose destroy() leaves the enemy in the   *)
(* list.                                                                   *)
(***************************************************************************)
enemyTakeDamageKept(c, k, b) ==
    IF c.gameState.enemies[k].health - b.damage <= 0
    THEN [c EXCEPT !.gameState.enemies[k].health = @ - b.damage,
                   !.gameState.score = @ + 100,
                   !.called = Append(@, [of |-> "takeDamage", bullet |-> b.id,
                                         enemy |-> c.gameState.enemies[k].id,
                                         at |-> c.gameState.enemies[k].position,
                                         value |-> TRUE])]
    ELSE [c EXCEPT !.gameState.enemies[k].health = @ - b.damage,
                   !.called = Append(@, [of |-> "takeDamage", bullet |-> b.id,
                                         enemy |-> c.gameState.enemies[k].id,
                                         at |-> c.gameState.enemies[k].position,
                                         value |-> FALSE])]

(***************************************************************************)
(* Enemy.takeDamage(damageAmount) for the enemy at index k, hit by the     *)
(* bullet b: an enemy without health is destroyed and scores 100.          *)
(***************************************************************************)
enemyTakeDamage(c, k, b) ==
    IF c.gameState.enemies[k].health - b.damage <= 0
    THEN [c EXCEPT !.gameState.enemies = Splice(@, k),
                   !.gameState.score = @ + 100,
                   !.called = Append(@, [of |-> "takeDamage", bullet |-> b.id,
                                         enemy |-> c.gameState.enemies[k].id,
                                         at |-> c.gameState.enemies[k].position,
                                         value |-> TRUE])]
    ELSE [c EXCEPT !.gameState.enemies[k].health = @ - b.damage,
                   !.called = Append(@, [of |-> "takeDamage", bullet |-> b.id,
                                         enemy |-> c.gameState.enemies[k].id,
                                         at |-> c.gameState.enemies[k].position,
                                         value |-> FALSE])]

(***************************************************************************)
(* Bullet.deactivate() for the bullet at index i of gameState.bullets.     *)
(***************************************************************************)
deactivate(c, i) ==
    [c EXCEPT !.gameState.bullets = Splice(@, i),
              !.weaponSystem.bulletPool =
                  releaseBullet(@, c.gameState.bullets[i].id)]

(***************************************************************************)
(* The index of the first enemy within 1.0 of the position, 0 if there is  *)
(* none.                                                                   *)
(***************************************************************************)
RECURSIVE FirstEnemy(_, _, _)
FirstEnemy(enemies, position, k) ==
    IF k > Len(enemies) THEN 0
    ELSE IF WithinHitDistance(position, enemies[k].position) THEN k
    ELSE FirstEnemy(enemies, position, k + 1)

(***************************************************************************)
(* The terrain test of Bullet.update: the path of the frame is cut into    *)
(* steps of three quarters of a block at most, and the bullet stops if the *)
(* block at the end of a step is neither AIR nor WATER.                    *)
(***************************************************************************)
Ceil(a, b) == (a + b - 1) \div b

Solid(x, y, z, random) ==
    getBlockType(x \div U, y \div U, z \div U, random) \notin {AIR, WATER}

HitsTerrain(from, path, steps, random) ==
    IF path.x = 0 /\ path.y = 0 /\ path.z = 0
    THEN Solid(from.x, from.y, from.z, random)
    ELSE \E i \in 1..steps :
            Solid(from.x + (path.x * i) \div steps,
                  from.y + (path.y * i) \div steps,
                  from.z + (path.z * i) \div steps, random)

(***************************************************************************)
(* Bullet.update(delta) for the bullet at index i, moved to b: the enemies *)
(* first, then the terrain, then the life of the bullet.                   *)
(***************************************************************************)
Advanced(b) ==
    [b EXCEPT !.previousPosition = b.position,
              !.position = Vec(@.x + (b.velocity.x * FrameDelta) \div 10000,
                               @.y + (b.velocity.y * FrameDelta) \div 10000,
                               @.z + (b.velocity.z * FrameDelta) \div 10000)]

Tested(c, i, b, path, random) ==
    LET k == FirstEnemy(c.gameState.enemies, b.position, 1)
    IN  IF k > 0 THEN deactivate(enemyTakeDamage(c, k, b), i)
        ELSE IF HitsTerrain(b.previousPosition, path,
                            Max(1, Ceil(LengthOf(path), 750)), random)
        THEN deactivate(c, i)
        ELSE IF b.life - FrameDelta <= 0 THEN deactivate(c, i)
        ELSE [c EXCEPT !.gameState.bullets[i] = [b EXCEPT !.life = @ - FrameDelta]]

bulletUpdate(c, i, random) ==
    Tested(c, i, Advanced(c.gameState.bullets[i]),
           Minus(Advanced(c.gameState.bullets[i]).position,
                 c.gameState.bullets[i].position),
           random)

RECURSIVE UpdateClientBullets(_, _, _)
UpdateClientBullets(c, i, random) ==
    IF i < 1 THEN c
    ELSE UpdateClientBullets(bulletUpdate(c, i, random), i - 1, random)

(***************************************************************************)
(* spawnEnemy of main.js: an enemy at the spot the two draws of            *)
(* Math.random() give, as an offset from the camera.                       *)
(***************************************************************************)
spawnEnemy(c, spot) ==
    [c EXCEPT !.gameState.enemies =
                  Append(@, Enemy(c.page.nextEnemy,
                                  c.controls.position.x + spot[1],
                                  c.controls.position.z + spot[2])),
              !.page.nextEnemy = @ + 1]

(***************************************************************************)
(* The simulation of a frame of animate at Date.now() = t: every enemy is  *)
(* updated, then every bullet, from the last of the list to the first.     *)
(***************************************************************************)
Simulated(c, t, random) ==
    UpdateClientBullets(UpdateEnemies(c, 1, t), Len(c.gameState.bullets), random)

(***************************************************************************)
(* animate() of main.js at Date.now() = t.  draw holds what Math.random()  *)
(* returns in the frame: to the tree tests of the terrain, to the test     *)
(* that spawns an enemy and to spawnEnemy.                                 *)
(***************************************************************************)
Queued(c, t) ==
    IF /\ c.gameState.ammo = 0
       /\ c.gameState.totalAmmo > 0
       /\ ~c.weaponSystem.isReloading
    THEN [c EXCEPT !.timers = setTimeout(@, "reload", 500, t)]
    ELSE c

Spawned(c, draw) ==
    IF draw.spawns /\ Len(c.gameState.enemies) < 15
    THEN spawnEnemy(c, draw.spot)
    ELSE c

Located(c) ==
    updateChunks(c, << (c.controls.position.x \div U) \div CHUNK_SIZE,
                       (c.controls.position.z \div U) \div CHUNK_SIZE >>)

Checked(c, random) ==
    IF c.page.timeSinceLastEnvDamageCheck + FrameDelta >= 10000
    THEN [checkEnvironmentalDamage(c, random)
             EXCEPT !.page.timeSinceLastEnvDamageCheck = 0]
    ELSE [c EXCEPT !.page.timeSinceLastEnvDamageCheck = @ + FrameDelta]

Scheduled(c, t) ==
    [c EXCEPT !.page.frameAt = t + FrameMs, !.page.frames = @ + 1]

animate(c, t, draw) ==
    Queued(Spawned(Simulated(Located(updatePlayerMovement(
               Checked(Scheduled(c, t), draw.tree), draw.tree)),
           t, draw.tree), draw), t)

(***************************************************************************)
(* The mousedown handler of main.js for the left button, and the click     *)
(* handler that locks the pointer.                                         *)
(***************************************************************************)
onMouseDown(c, look, t) ==
    IF c.controls.isLocked THEN fireWeapon(c, look, t) ELSE c

onClick(c) ==
    IF ~c.controls.isLocked THEN [c EXCEPT !.controls.isLocked = TRUE] ELSE c

(***************************************************************************)
(* The timer that runs next, the one due first and, among those due at the *)
(* same time, the one set first; and its callback at Date.now() = t.       *)
(***************************************************************************)
RECURSIVE FirstDue(_, _, _)
FirstDue(ts, i, best) ==
    IF i > Len(ts) THEN best
    ELSE IF ts[i].due < ts[best].due THEN FirstDue(ts, i + 1, i)
    ELSE FirstDue(ts, i + 1, best)

Callback(c, callback, t, spot) ==
    CASE callback = "spawnEnemy" -> spawnEnemy(c, spot)
      [] callback = "reload" -> reload(c, t)
      [] callback = "transfer" -> transfer(c)

RunTimer(c, k, t, spot) ==
    Callback([c EXCEPT !.timers = Splice(@, k)], c.timers[k].callback, t, spot)

(***************************************************************************)
(* The inputs of the client: the orientations of the camera at a shot, the *)
(* spots where enemies appear (Math.random() = 0 twice: 32 blocks along    *)
(* +x), and what Math.random() returns in a frame.                         *)
(***************************************************************************)
Looks == {Downhill}

Spots == { <<32 * U, 0>> }

FrameDraws == { [tree |-> 500, spawns |-> FALSE, spot |-> <<32 * U, 0>>] }

(***************************************************************************)
(* The page as it opens: frames follow each other FrameMs apart, a timer   *)
(* runs when it is due, and the player clicks, presses Space and shoots    *)
(* between frames.                                                         *)
(***************************************************************************)
MaxFrames == 100
MaxRounds == 1

InitClient ==
    /\ ServerOff
    /\ NoCall
    /\ clock = PageStart
    /\ gameState = InitialGameState
    /\ \E random \in Draws : controls = InitialControls(random)
    /\ weaponSystem = WeaponSystem
    /\ timers = FirstEnemies(PageStart)
    /\ page = InitialPage(PageStart)
    /\ called = <<>>

PageOpen == page.phase # "closed"

TimerDue == timers # <<>> /\ timers[FirstDue(timers, 1, 1)].due <= page.frameAt

Frame ==
    /\ page.phase = "running"
    /\ page.frames < MaxFrames
    /\ ~TimerDue
    /\ clock' = page.frameAt
    /\ \E draw \in FrameDraws : \E c \in { animate(Client, page.frameAt, draw) } :
          /\ gameState' = c.gameState
          /\ controls' = c.controls
          /\ weaponSystem' = c.weaponSystem
          /\ timers' = c.timers
          /\ page' = c.page
          /\ called' = c.called
    /\ UNCHANGED <<serverVars, callVars>>

Alarm ==
    /\ page.phase = "running"
    /\ TimerDue
    /\ clock' = Max(clock, timers[FirstDue(timers, 1, 1)].due)
    /\ \E spot \in Spots :
       \E c \in { RunTimer(Client, FirstDue(timers, 1, 1),
                           Max(clock, timers[FirstDue(timers, 1, 1)].due), spot) } :
          /\ gameState' = c.gameState
          /\ controls' = c.controls
          /\ weaponSystem' = c.weaponSystem
          /\ timers' = c.timers
          /\ page' = c.page
          /\ called' = c.called
    /\ UNCHANGED <<serverVars, callVars>>

Click ==
    /\ page.phase = "running"
    /\ controls' = onClick(Client).controls
    /\ called' = <<>>
    /\ UNCHANGED <<clock, gameState, weaponSystem, timers, page, serverVars, callVars>>

Shooting(looks, rounds) ==
    /\ page.phase = "running"
    /\ weaponSystem.bulletPool.created < rounds
    /\ \E look \in looks : \E c \in { onMouseDown(Client, look, clock) } :
          /\ gameState' = c.gameState
          /\ weaponSystem' = c.weaponSystem
          /\ called' = c.called
    /\ UNCHANGED <<clock, controls, timers, page, serverVars, callVars>>

MouseDown == Shooting(Looks, MaxRounds)

KeyDown(code) ==
    /\ page.phase = "running"
    /\ \E c \in { onKeyDown(Client, code, clock) } :
          /\ controls' = c.controls
          /\ weaponSystem' = c.weaponSystem
          /\ timers' = c.timers
          /\ called' = c.called
    /\ UNCHANGED <<clock, gameState, page, serverVars, callVars>>

Space == KeyDown("Space")

NextStroll ==
    \/ Frame
    \/ Alarm
    \/ Click
    \/ Space

SpecStroll == InitClient /\ [][NextStroll]_vars

(***************************************************************************)
(* Jumps on either side: the server at its instants with its two players,  *)
(* or the page with the server stopped.                                    *)
(***************************************************************************)
SpecJump == (InitPaced \/ InitClient) /\ [][NextPaced \/ NextStroll]_vars

NextHunt ==
    \/ Frame
    \/ Alarm
    \/ Click
    \/ MouseDown

SpecHunt == InitClient /\ [][NextHunt]_vars

(***************************************************************************)
(* Ticks and frames on either side: the server at its instants with its    *)
(* two players, or the page with the server stopped.                       *)
(***************************************************************************)
SpecLoop == (InitPaced \/ InitClient) /\ [][NextPaced \/ NextHunt]_vars

(***************************************************************************)
(* The weapon at chosen instants.  The page has been open for a minute:    *)
(* the five enemies of the start have come and have been shot, two hits    *)
(* each, every bullet is back in the pool, and the player stands on the    *)
(* ground of the spawn column with the pointer locked and with one of the  *)
(* stocks of Magazines.  The clock moves from one of the instants to a     *)
(* later one; a frame is drawn and a timer that is due runs at any of      *)
(* them, the timers in the order they are due.                             *)
(***************************************************************************)
MaxDraws == 3

Moments == {0, 150, 151, 500, 2000, 2500}

Magazines == { <<20, TOTAL_AMMO>>, <<1, TOTAL_AMMO>>, <<0, 10>> }

ArmouryStart == PageStart + 60000

InitArmoury ==
    /\ ServerOff
    /\ NoCall
    /\ clock = ArmouryStart
    /\ \E stock \in Magazines :
          gameState = [InitialGameState EXCEPT !.ammo = stock[1],
                                               !.totalAmmo = stock[2],
                                               !.score = 500]
    /\ controls = [InitialControls(500) EXCEPT !.canJump = TRUE,
                                               !.isLocked = TRUE]
    /\ weaponSystem = [WeaponSystem EXCEPT
                          !.lastShot = PageStart + 30000,
                          !.bulletPool.available = <<1>>,
                          !.bulletPool.created = 1]
    /\ timers = <<>>
    /\ page = [InitialPage(ArmouryStart) EXCEPT !.nextEnemy = 6,
                                                   !.lastPlayerChunkKey = <<0, 0>>]
    /\ called = <<>>

Wait ==
    /\ page.phase = "running"
    /\ \E m \in Moments : clock < ArmouryStart + m /\ clock' = ArmouryStart + m
    /\ called' = <<>>
    /\ UNCHANGED <<gameState, controls, weaponSystem, timers, page,
                   serverVars, callVars>>

Draw ==
    /\ page.phase = "running"
    /\ page.frames < MaxDraws
    /\ \E draw \in FrameDraws : \E c \in { animate(Client, clock, draw) } :
          /\ gameState' = c.gameState
          /\ controls' = c.controls
          /\ weaponSystem' = c.weaponSystem
          /\ timers' = c.timers
          /\ page' = c.page
          /\ called' = c.called
    /\ UNCHANGED <<clock, serverVars, callVars>>

Timeout ==
    /\ page.phase = "running"
    /\ timers # <<>>
    /\ timers[FirstDue(timers, 1, 1)].due <= clock
    /\ \E spot \in Spots :
       \E c \in { RunTimer(Client, FirstDue(timers, 1, 1), clock, spot) } :
          /\ gameState' = c.gameState
          /\ controls' = c.controls
          /\ weaponSystem' = c.weaponSystem
          /\ timers' = c.timers
          /\ page' = c.page
          /\ called' = c.called
    /\ UNCHANGED <<clock, serverVars, callVars>>

Trigger == Shooting({Down}, AMMO_CAPACITY)

KeyR == KeyDown("KeyR")

NextArmoury ==
    \/ Wait
    \/ Draw
    \/ Timeout
    \/ Trigger
    \/ KeyR

SpecArmoury == InitArmoury /\ [][NextArmoury]_vars

(***************************************************************************)
(* The siege: the player stays where the page put it and never shoots, and *)
(* the five enemies of initializeWorld appear uphill, at the least         *)
(* distance spawnEnemy allows (CHUNK_SIZE), and walk to the player.  Long  *)
(* enough for them to arrive and attack.                                   *)
(***************************************************************************)
MaxSiege == 1300

Uphill == << -CHUNK_SIZE * U, 0 >>

March ==
    /\ page.phase = "running"
    /\ page.frames < MaxSiege
    /\ ~TimerDue
    /\ clock' = page.frameAt
    /\ \E c \in { animate(Client, page.frameAt,
                          [tree |-> 500, spawns |-> FALSE, spot |-> Uphill]) } :
          /\ gameState' = c.gameState
          /\ controls' = c.controls
          /\ weaponSystem' = c.weaponSystem
          /\ timers' = c.timers
          /\ page' = c.page
          /\ called' = c.called
    /\ UNCHANGED <<serverVars, callVars>>

Muster ==
    /\ page.phase = "running"
    /\ TimerDue
    /\ clock' = Max(clock, timers[FirstDue(timers, 1, 1)].due)
    /\ \E c \in { RunTimer(Client, FirstDue(timers, 1, 1),
                           Max(clock, timers[FirstDue(timers, 1, 1)].due), Uphill) } :
          /\ gameState' = c.gameState
          /\ controls' = c.controls
          /\ weaponSystem' = c.weaponSystem
          /\ timers' = c.timers
          /\ page' = c.page
          /\ called' = c.called
    /\ UNCHANGED <<serverVars, callVars>>

NextSiege ==
    \/ March
    \/ Muster

SpecSiege == InitClient /\ [][NextSiege]_vars

(***************************************************************************)
(* Hits on either side: the duel on the server, or the hunt on the page    *)
(* with the server stopped.                                                *)
(***************************************************************************)
SpecHits == (InitServer \/ InitClient) /\ [][NextDuel \/ NextHunt]_vars

(***************************************************************************)
(* PerlinNoise of utils.js, the generator of the client, translated on its *)
(* own from its source.  One iteration of the shuffle loop on the loop     *)
(* state [p, own, rng], with the remainder and the absent keys of          *)
(* JavaScript as in the generator of the server.                           *)
(***************************************************************************)
utilsShuffleStep(st, i) ==
    LET m == (((st.rng * 9000) % 233280) + st.rng * 301 + 49297) % 233280
        rng == IF st.rng >= -5 \/ m = 0 THEN m ELSE m - 233280
        j == (rng * (i + 1)) \div 233280
    IN  IF j >= 0
        THEN [p |-> [st.p EXCEPT ![i + 1] = st.p[j + 1], ![j + 1] = st.p[i + 1]],
              own |-> st.own,
              rng |-> rng]
        ELSE [p |-> [st.p EXCEPT ![i + 1] = st.own[j]],
              own |-> [st.own EXCEPT ![j] = st.p[i + 1]],
              rng |-> rng]

RECURSIVE utilsShuffle(_, _, _)
utilsShuffle(st, i, n) ==
    IF n = 0 \/ Len(st.p) = 0 THEN st
    ELSE IF n = 1 THEN utilsShuffleStep(st, i)
    ELSE LET h == n \div 2
         IN  utilsShuffle(utilsShuffle(st, i, h), i - h, n - h)

utilsGeneratePermutation(seed) ==
    LET p == utilsShuffle([p |-> [k \in 1..256 |-> k - 1],
                           own |-> [k \in -256..-1 |-> Undefined],
                           rng |-> seed], 255, 255).p
    IN  p \o p

(***************************************************************************)
(* export const noise = new PerlinNoise(42) of world.js.                   *)
(***************************************************************************)
utilsPermutation == utilsGeneratePermutation(WorldSeed)

(***************************************************************************)
(* noise(x, y, z) and octaveNoise of utils.js on the table p: arguments of *)
(* scale NU, result of scale FS.                                           *)
(***************************************************************************)
utilsNoise(p, xa, ya, za) ==
    LET X == (xa \div NU) % 256
        Y == (ya \div NU) % 256
        Z == (za \div NU) % 256
        x == (xa % NU) \div (NU \div FS)
        y == (ya % NU) \div (NU \div FS)
        z == (za % NU) \div (NU \div FS)
        u == (((((x * x) \div FS) * x) \div FS)
                 * (((x * (6 * x - 15 * FS)) \div FS) + 10 * FS)) \div FS
        v == (((((y * y) \div FS) * y) \div FS)
                 * (((y * (6 * y - 15 * FS)) \div FS) + 10 * FS)) \div FS
        w == (((((z * z) \div FS) * z) \div FS)
                 * (((z * (6 * z - 15 * FS)) \div FS) + 10 * FS)) \div FS
        A == p[X + 1] + Y
        AA == p[A + 1] + Z
        AB == p[A + 2] + Z
        B == p[X + 2] + Y
        BA == p[B + 1] + Z
        BB == p[B + 2] + Z
    IN  lerp(w,
             lerp(v,
                  lerp(u, grad(p[AA + 1], x, y, z),
                          grad(p[BA + 1], x - FS, y, z)),
                  lerp(u, grad(p[AB + 1], x, y - FS, z),
                          grad(p[BB + 1], x - FS, y - FS, z))),
             lerp(v,
                  lerp(u, grad(p[AA + 2], x, y, z - FS),
                          grad(p[BA + 2], x - FS, y, z - FS)),
                  lerp(u, grad(p[AB + 2], x, y - FS, z - FS),
                          grad(p[BB + 2], x - FS, y - FS, z - FS))))

RECURSIVE utilsOctaveNoise(_, _, _, _, _, _, _, _, _)
utilsOctaveNoise(p, x, y, octaves, persistence, totalValue, currentAmplitude,
                 currentFrequency, maxPossibleValue) ==
    IF octaves = 0 THEN totalValue \div maxPossibleValue
    ELSE utilsOctaveNoise(p, x, y, octaves - 1, persistence,
                          totalValue + utilsNoise(p, x * currentFrequency,
                                                  y * currentFrequency, 0)
                                         * currentAmplitude,
                          (currentAmplitude * persistence) \div 1000,
                          currentFrequency * 2,
                          maxPossibleValue + currentAmplitude)

(***************************************************************************)
(* The two generators side by side: each is constructed from the seed of   *)
(* args, and the pair built from the seed of the world is then sampled     *)
(* with the same queries, octaveNoise(x, y, octaves, persistence, scale)   *)
(* at the positions and with the parameters the programs use.  returned    *)
(* holds what each side gave, in the order of the calls.                   *)
(***************************************************************************)
MaxQueries == 2

Positions == {0, 1, 500, 1000, 3000, 10000, 14000, 30000, -75000, 123456}

Octaves == { <<4, 500, 10>>, <<3, 600, 20>>, <<2, 400, 15>> }

InitTwin ==
    /\ ServerAtRest
    /\ NoPage
    /\ args \in { [seed |-> seed] : seed \in Seeds }
    /\ returned = <<>>

Construct ==
    /\ returned = <<>>
    /\ returned' = << [of |-> "PerlinNoise", query |-> args.seed,
                       server |-> generatePermutation(args.seed),
                       utils |-> utilsGeneratePermutation(args.seed)] >>
    /\ UNCHANGED <<serverVars, clientVars, args>>

Sample ==
    /\ returned # <<>>
    /\ args.seed = WorldSeed
    /\ Len(returned) <= MaxQueries
    /\ \E x \in Positions : \E y \in {0, 500, 14000} : \E o \in Octaves :
          returned' =
              Append(returned,
                     [of |-> "octaveNoise", query |-> <<x, y, o>>,
                      server |-> octaveNoise(x, y, o[1], o[2], o[3]),
                      utils |-> utilsOctaveNoise(utilsPermutation, x, y,
                                                 o[1], o[2], 0, 1000, o[3], 0)])
    /\ UNCHANGED <<serverVars, clientVars, args>>

NextTwin ==
    \/ Construct
    \/ Sample

SpecTwin == InitTwin /\ [][NextTwin]_vars

(***************************************************************************)
(* Messages with a payload the handlers do not expect.  A payload that is  *)
(* missing is undefined in the handler: destructuring it, or reading a     *)
(* property of it, throws a TypeError; so does reading a property of the   *)
(* input record of a payload that has none.  args holds the message (and   *)
(* counts the messages of this kind), returned what became of the call.    *)
(***************************************************************************)
MaxMalformed == 1

Strangers == {MaxConnections + 1}

Absent == [defined |-> FALSE]

MalformedInputs ==
    { Absent, [defined |-> TRUE], [defined |-> TRUE, rotation |-> Vec(0, 90, 0)] }

Malformed == IF args = <<>> THEN 0 ELSE args.n

Message(name, id, data) ==
    [of |-> name, id |-> id, data |-> data, n |-> Malformed + 1]

Outcome(name, thrown) == << [of |-> name, thrown |-> thrown] >>

(***************************************************************************)
(* socket.on('player-input') for the registered player p and a payload     *)
(* without an input record: the player after the handler, and whether the  *)
(* handler has thrown.                                                     *)
(***************************************************************************)
OnMalformedInput(p, data, t) ==
    IF ~p.isAlive THEN [player |-> p, thrown |-> FALSE]
    ELSE IF ~data.defined THEN [player |-> p, thrown |-> TRUE]
    ELSE IF RateLimited(p, t) THEN [player |-> p, thrown |-> FALSE]
    ELSE [player |-> [p EXCEPT !.lastInputTime = t,
                               !.rotation = IF "rotation" \in DOMAIN data
                                            THEN data.rotation ELSE @],
          thrown |-> TRUE]

MalformedInput ==
    /\ Malformed < MaxMalformed
    /\ \E id \in Runners \cup Strangers : \E data \in MalformedInputs :
          /\ args' = Message("player-input", id, data)
          /\ IF PlayerIndex(players, id) = 0
             THEN /\ players' = players
                  /\ returned' = Outcome("player-input", FALSE)
             ELSE \E r \in { OnMalformedInput(players[PlayerIndex(players, id)],
                                              data, now) } :
                     /\ players' = [players EXCEPT
                                      ![PlayerIndex(players, id)] = r.player]
                     /\ returned' = Outcome("player-input", r.thrown)
    /\ emitted' = <<>>
    /\ damaged' = <<>>
    /\ collided' = {}
    /\ UNCHANGED <<now, sockets, nextSocketId, bullets, bulletIdCounter,
                   lastUpdate, retired>>
    /\ UNCHANGED clientVars

(***************************************************************************)
(* socket.on('player-shoot') without a payload: the guards pass or not as  *)
(* for any shot; past them lastShot is stamped, the round is taken and the *)
(* counter of bullet ids is advanced before data.position is read, which   *)
(* throws, so that no bullet is made and nothing is emitted.               *)
(***************************************************************************)
MalformedShoot ==
    /\ Malformed < MaxMalformed
    /\ bulletIdCounter < MaxVolley
    /\ \E id \in Gunners \cup Strangers :
          /\ args' = Message("player-shoot", id, Absent)
          /\ IF PlayerIndex(players, id) = 0
             THEN /\ returned' = Outcome("player-shoot", FALSE)
                  /\ UNCHANGED <<players, bulletIdCounter>>
             ELSE IF ShotAccepted(players[PlayerIndex(players, id)], now)
             THEN /\ players' = [players EXCEPT
                                   ![PlayerIndex(players, id)].lastShot = now,
                                   ![PlayerIndex(players, id)].ammo = @ - 1]
                  /\ bulletIdCounter' = bulletIdCounter + 1
                  /\ returned' = Outcome("player-shoot", TRUE)
             ELSE /\ returned' = Outcome("player-shoot", FALSE)
                  /\ UNCHANGED <<players, bulletIdCounter>>
    /\ emitted' = <<>>
    /\ damaged' = <<>>
    /\ collided' = {}
    /\ UNCHANGED <<now, sockets, nextSocketId, bullets, lastUpdate, retired>>
    /\ UNCHANGED clientVars

NextRogue ==
    \/ Pace
    \/ Beat
    \/ Press
    \/ Fire
    \/ MalformedInput
    \/ MalformedShoot

SpecRogue == InitPaced /\ [][NextRogue]_vars

(***************************************************************************)
(* The duel with reloads: a player that has shot can be killed and send    *)
(* player-reload afterwards.                                               *)
(***************************************************************************)
NextWake ==
    \/ Connection
    \/ Duel
    \/ Reload
    \/ Tick

SpecWake == InitServer /\ [][NextWake]_vars

(***************************************************************************)
(* The range: shots and the loops that keep running.  On the server the    *)
(* game loop ticks ClockStep apart up to Horizon; on the page, opened as   *)
(* in the armoury with twenty rounds and the first frame FrameMs away, the *)
(* frames follow each other up to MaxTrace.  A shot is fired early enough  *)
(* for the whole life of its bullet to lie before the end.  Up is the      *)
(* camera looking at the sky.                                              *)
(***************************************************************************)
Horizon == 8000

MaxTrace == 190

LifeFrames == Ceil(3 * 10000, FrameDelta)

Up == [forward |-> Vec(0, 1000, 0), up |-> Vec(0, 0, 1000),
       right |-> Vec(1000, 0, 0)]

Metronome ==
    /\ page.phase = "closed"
    /\ now + ClockStep <= Horizon
    /\ gameLoop(now + ClockStep)

Volley ==
    /\ bulletIdCounter < MaxVolley
    /\ now + 5 * U <= Horizon
    /\ \E id \in sockets : \E data \in ShootPayloads : PlayerShoot(id, data)

InitTracer ==
    /\ ServerOff
    /\ NoCall
    /\ clock = ArmouryStart
    /\ gameState = [InitialGameState EXCEPT !.ammo = 20, !.score = 500]
    /\ controls = [InitialControls(500) EXCEPT !.canJump = TRUE,
                                               !.isLocked = TRUE]
    /\ weaponSystem = [WeaponSystem EXCEPT
                          !.lastShot = PageStart + 30000,
                          !.bulletPool.available = <<1>>,
                          !.bulletPool.created = 1]
    /\ timers = <<>>
    /\ page = [InitialPage(ArmouryStart + FrameMs)
                  EXCEPT !.nextEnemy = 6, !.lastPlayerChunkKey = <<0, 0>>]
    /\ called = <<>>

Trace ==
    /\ page.phase = "running"
    /\ page.frames < MaxTrace
    /\ ~TimerDue
    /\ clock' = page.frameAt
    /\ \E draw \in FrameDraws : \E c \in { animate(Client, page.frameAt, draw) } :
          /\ gameState' = c.gameState
          /\ controls' = c.controls
          /\ weaponSystem' = c.weaponSystem
          /\ timers' = c.timers
          /\ page' = c.page
          /\ called' = c.called
    /\ UNCHANGED <<serverVars, callVars>>

Salvo ==
    /\ page.phase = "running"
    /\ page.frames + LifeFrames <= MaxTrace
    /\ Shooting({Up, Down}, 2)

NextRange ==
    \/ Connection
    \/ Volley
    \/ Metronome
    \/ Salvo
    \/ Trace

(***************************************************************************)
(* setInterval keeps calling gameLoop and requestAnimationFrame keeps      *)
(* calling animate: the tick and the frame are taken when they can be.     *)
(* Ticking and Framing are what Metronome and Trace do to lastUpdate and   *)
(* to the clock; no other step changes lastUpdate, and no other step of    *)
(* the page moves the clock, so that a step of Ticking that changes        *)
(* lastUpdate is a step of Metronome, and likewise for Framing and Trace.  *)
(***************************************************************************)
Ticking ==
    /\ page.phase = "closed"
    /\ now + ClockStep <= Horizon
    /\ lastUpdate' = now + ClockStep

Framing ==
    /\ page.phase = "running"
    /\ page.frames < MaxTrace
    /\ ~TimerDue
    /\ clock' = page.frameAt

SpecRange ==
    /\ InitServer \/ InitTracer
    /\ [][NextRange]_vars
    /\ WF_lastUpdate(Ticking)
    /\ WF_clock(Framing)

(***************************************************************************)
(* The walk: the player of the range, the pointer locked, presses and      *)
(* releases W and S and presses Space between the frames, and so crosses   *)
(* the border of the chunks (0, 0) and (0, -1) to and fro and jumps.       *)
(* MaxStride is the number of frames.  Math.random() returns to the        *)
(* tree tests of a frame either 0.5 (no tree) or 0.005 (a tree on every    *)
(* column of grass that is not too cold).                                  *)
(***************************************************************************)
MaxStride == 3

WalkKeys == {"KeyW", "KeyS", "Space"}

StrideDraws ==
    { [tree |-> random, spawns |-> FALSE, spot |-> <<32 * U, 0>>] :
        random \in Draws }

WalkDown == \E code \in WalkKeys : KeyDown(code)

WalkUp ==
    /\ page.phase = "running"
    /\ \E code \in WalkKeys : controls' = onKeyUp(Client, code).controls
    /\ called' = <<>>
    /\ UNCHANGED <<clock, gameState, weaponSystem, timers, page,
                   serverVars, callVars>>

Stride ==
    /\ page.phase = "running"
    /\ page.frames < MaxStride
    /\ ~TimerDue
    /\ clock' = page.frameAt
    /\ \E draw \in StrideDraws : \E c \in { animate(Client, page.frameAt, draw) } :
          /\ gameState' = c.gameState
          /\ controls' = c.controls
          /\ weaponSystem' = c.weaponSystem
          /\ timers' = c.timers
          /\ page' = c.page
          /\ called' = c.called
    /\ UNCHANGED <<serverVars, callVars>>

NextWalk ==
    \/ WalkDown
    \/ WalkUp
    \/ Stride

SpecWalk == InitTracer /\ [][NextWalk]_vars

(***************************************************************************)
(* The corner: the same player walks a route, the keys of Route held frame *)
(* by frame: two frames to the left, five backward and four forward and to *)
(* the left, towards the corner of the column (-2, -1), which is one block *)
(* higher than the columns (-1, 0), (-2, 0) and (-1, -1) around the        *)
(* player.                                                                 *)
(***************************************************************************)
Route ==
    [i \in 1..11 |-> IF i <= 2 THEN {"KeyA"}
                     ELSE IF i <= 7 THEN {"KeyS"}
                     ELSE {"KeyW", "KeyA"}]

Held ==
    (IF controls.moveState.forward THEN {"KeyW"} ELSE {})
    \cup (IF controls.moveState.left THEN {"KeyA"} ELSE {})
    \cup (IF controls.moveState.backward THEN {"KeyS"} ELSE {})
    \cup (IF controls.moveState.right THEN {"KeyD"} ELSE {})

Ahead == page.phase = "running" /\ page.frames < Len(Route)

RouteDown ==
    /\ Ahead
    /\ \E code \in Route[page.frames + 1] \ Held : KeyDown(code)

RouteUp ==
    /\ Ahead
    /\ \E code \in Held \ Route[page.frames + 1] :
          controls' = onKeyUp(Client, code).controls
    /\ called' = <<>>
    /\ UNCHANGED <<clock, gameState, weaponSystem, timers, page,
                   serverVars, callVars>>

Leg ==
    /\ Ahead
    /\ Held = Route[page.frames + 1]
    /\ ~TimerDue
    /\ clock' = page.frameAt
    /\ \E draw \in StrideDraws : \E c \in { animate(Client, page.frameAt, draw) } :
          /\ gameState' = c.gameState
          /\ controls' = c.controls
          /\ weaponSystem' = c.weaponSystem
          /\ timers' = c.timers
          /\ page' = c.page
          /\ called' = c.called
    /\ UNCHANGED <<serverVars, callVars>>

NextCorner ==
    \/ RouteDown
    \/ RouteUp
    \/ Leg

SpecCorner == InitTracer /\ [][NextCorner]_vars

(***************************************************************************)
(* The trek: player 2 of the paced server walks and jumps, the game loop   *)
(* runs 16 ms or a second after the tick before it, so that the player     *)
(* comes over columns eight blocks away, higher and lower than the column  *)
(* of the spawn, and is in the air at some ticks and on the ground at      *)
(* others.  At most two ticks of either kind are taken.                    *)
(***************************************************************************)
TrekSteps == {16, ClockStep}

TrekInstants == { StartTime + a * ClockStep + b * 16 : a \in 0..2, b \in 0..2 }

TrekPayloads ==
    { [input |-> k, rotation |-> Vec(0, 0, 0)] :
        k \in {Keys(TRUE, FALSE, FALSE, FALSE, FALSE),
               Keys(FALSE, FALSE, TRUE, FALSE, FALSE),
               Keys(FALSE, FALSE, FALSE, TRUE, TRUE),
               Keys(FALSE, FALSE, FALSE, FALSE, TRUE)} }

Hike ==
    \E d \in TrekSteps :
        /\ now + d \in TrekInstants
        /\ gameLoop(now + d)

Trek ==
    \E id \in Runners : \E data \in TrekPayloads :
        Sequenced(id, MaxInputs) /\ PlayerInput(id, data)

NextTrek ==
    \/ Hike
    \/ Trek

SpecTrek == InitPaced /\ [][NextTrek]_vars

(***************************************************************************)
(* The ledge: the terrain of the server is 21 high along z = 0 for x <= 0  *)
(* and 20 high beyond, the spawn being on the edge.  Player 1, its eye at  *)
(* (-1.78, 22.8, 0), shoots down and towards the edge at 100 blocks/s;     *)
(* it also shoots the bullets of the duel, straight up.  The game loop     *)
(* runs every 16 or 17 ms, as setInterval(gameLoop, 1000 / 60) makes it.   *)
(***************************************************************************)
LedgePayloads ==
    { [position |-> Vec(-1780, TerrainHeightAt(-1780, 0) * U + PLAYER_HEIGHT, 0),
       velocity |-> Vec(60 * U, -80 * U, 0)] }
    \cup DuelPayloads

LedgeSteps == {16, 17}

LedgeEnd == StartTime + 4 * 17

Snipe ==
    /\ bulletIdCounter < MaxVolley
    /\ \E id \in Gunners : \E data \in LedgePayloads : PlayerShoot(id, data)

Drum ==
    \E d \in LedgeSteps :
        /\ now + d <= LedgeEnd
        /\ gameLoop(now + d)

NextLedge ==
    \/ Drum
    \/ Snipe

SpecLedge == InitPaced /\ [][NextLedge]_vars

(***************************************************************************)
(* The swarm: the first second of the page.  Math.random() is below 0.002  *)
(* in the frames of a rush, which begins in any of the first RushEnd       *)
(* frames and lasts to the end of them, and at or above it in every other  *)
(* frame; the timers of initializeWorld run when they are due.  Every      *)
(* enemy appears 32 blocks along +x.                                       *)
(***************************************************************************)
MaxSwarm == 62
RushEnd == 20

SwarmDraw(spawns) == [tree |-> 500, spawns |-> spawns, spot |-> <<32 * U, 0>>]

Swarming(spawns) ==
    /\ page.phase = "running"
    /\ page.frames < MaxSwarm
    /\ ~TimerDue
    /\ clock' = page.frameAt
    /\ \E c \in { animate(Client, page.frameAt, SwarmDraw(spawns)) } :
          /\ gameState' = c.gameState
          /\ controls' = c.controls
          /\ weaponSystem' = c.weaponSystem
          /\ timers' = c.timers
          /\ page' = c.page
          /\ called' = c.called
    /\ UNCHANGED <<serverVars, callVars>>

Rush ==
    /\ PageOpen
    /\ page.frames < RushEnd
    /\ Swarming(TRUE)

Lull ==
    /\ PageOpen
    /\ IF gameState.enemies = <<>> THEN TRUE ELSE page.frames >= RushEnd
    /\ Swarming(FALSE)

NextSwarm ==
    \/ Rush
    \/ Lull
    \/ Alarm

SpecSwarm == InitClient /\ [][NextSwarm]_vars

(***************************************************************************)
(* The cull: the page as it opens, with a player who locks the pointer     *)
(* when the first enemy has appeared and fires at it, one round at a time, *)
(* a round when the one before has left the list of bullets.               *)
(***************************************************************************)
MaxCull == 3

Aim ==
    /\ PageOpen
    /\ gameState.enemies # <<>>
    /\ ~controls.isLocked
    /\ Click

Burst ==
    /\ PageOpen
    /\ gameState.enemies # <<>>
    /\ gameState.bullets = <<>>
    /\ controls.isLocked
    /\ Shooting(Looks, MaxCull)

NextCull ==
    \/ Frame
    \/ Alarm
    \/ Aim
    \/ Burst

SpecCull == InitClient /\ [][NextCull]_vars

(***************************************************************************)
(* The graze: the same player with one round, the camera a little lower    *)
(* than Downhill, on a line that meets the ground half a block before the  *)
(* spot where the first enemy walks.                                       *)
(***************************************************************************)
Low == [forward |-> Vec(969, -247, 0), up |-> Vec(247, 969, 0),
        right |-> Vec(0, 0, 1000)]

Graze ==
    /\ PageOpen
    /\ gameState.enemies # <<>>
    /\ gameState.bullets = <<>>
    /\ controls.isLocked
    /\ Shooting({Low}, 1)

NextGraze ==
    \/ Frame
    \/ Alarm
    \/ Aim
    \/ Graze

SpecGraze == InitClient /\ [][NextGraze]_vars

(***************************************************************************)
(* The cadence of the display: requestAnimationFrame calls animate once    *)
(* for every refresh, and the time between two refreshes is the display's, *)
(* 7 ms at 144 Hz, 17 ms at 60 Hz and 33 ms at 30 Hz.  The first frame is  *)
(* drawn when the page starts, the second one of the FrameGaps later, and  *)
(* every other frame as long after the frame before it as the second was   *)
(* after the first.  A timer that is due before the next frame runs first. *)
(***************************************************************************)
MaxPaint == 62

FrameGaps == {7, 17, 33}

LastPaint == page.frameAt - FrameMs

Cadence ==
    IF page.frames < 2 THEN FrameGaps
    ELSE { (LastPaint - PageStart) \div (page.frames - 1) }

PaintAt ==
    IF page.frames = 0 THEN {PageStart}
    ELSE { LastPaint + gap : gap \in Cadence }

Overdue(t) == IF timers = <<>> THEN FALSE ELSE timers[FirstDue(timers, 1, 1)].due <= t

Paint ==
    /\ page.phase = "running"
    /\ page.frames < MaxPaint
    /\ \E t \in PaintAt : \E draw \in FrameDraws :
          /\ ~Overdue(t)
          /\ clock' = t
          /\ \E c \in { animate(Client, t, draw) } :
                /\ gameState' = c.gameState
                /\ controls' = c.controls
                /\ weaponSystem' = c.weaponSystem
                /\ timers' = c.timers
                /\ page' = c.page
                /\ called' = c.called
    /\ UNCHANGED <<serverVars, callVars>>

Rouse ==
    /\ page.phase = "running"
    /\ page.frames < MaxPaint
    /\ \E t \in PaintAt : Overdue(t)
    /\ clock' = Max(clock, timers[FirstDue(timers, 1, 1)].due)
    /\ \E spot \in Spots :
       \E c \in { RunTimer(Client, FirstDue(timers, 1, 1),
                           Max(clock, timers[FirstDue(timers, 1, 1)].due), spot) } :
          /\ gameState' = c.gameState
          /\ controls' = c.controls
          /\ weaponSystem' = c.weaponSystem
          /\ timers' = c.timers
          /\ page' = c.page
          /\ called' = c.called
    /\ UNCHANGED <<serverVars, callVars>>

NextCadence ==
    \/ Paint
    \/ Rouse
    \/ Click

SpecCadence == InitClient /\ [][NextCadence]_vars

(***************************************************************************)
(* The indices at which PerlinNoise.noise(x, y, z) reads the table p, in   *)
(* the order of the reads.  Entry is the read of one element: an index     *)
(* that is no index of the array gives undefined.  TableIndicesUnmasked is *)
(* a variant that takes the whole part of x without the mask of 255.       *)
(***************************************************************************)
Entry(p, i) == IF i \in 0..(Len(p) - 1) THEN At(p, i) ELSE Undefined

TableIndicesUnmasked(p, xa, ya, za) ==
    LET X == xa \div NU
        Y == (ya \div NU) % 256
        Z == (za \div NU) % 256
        A == Entry(p, X) + Y
        AA == Entry(p, A) + Z
        AB == Entry(p, A + 1) + Z
        B == Entry(p, X + 1) + Y
        BA == Entry(p, B) + Z
        BB == Entry(p, B + 1) + Z
    IN  <<X, A, A + 1, X + 1, B, B + 1, AA, BA, AB, BB,
          AA + 1, BA + 1, AB + 1, BB + 1>>

TableIndices(p, xa, ya, za) ==
    LET X == (xa \div NU) % 256
        Y == (ya \div NU) % 256
        Z == (za \div NU) % 256
        A == Entry(p, X) + Y
        AA == Entry(p, A) + Z
        AB == Entry(p, A + 1) + Z
        B == Entry(p, X + 1) + Y
        BA == Entry(p, B) + Z
        BB == Entry(p, B + 1) + Z
    IN  <<X, A, A + 1, X + 1, B, B + 1, AA, BA, AB, BB,
          AA + 1, BA + 1, AB + 1, BB + 1>>

(***************************************************************************)
(* A call of noise on its own, on the table of a seed that is no negative  *)
(* number and at a point with coordinates below 0, within the first 256    *)
(* units, at their end and beyond them: args holds the seed and the point  *)
(* (scale NU), returned the indices read.                                  *)
(***************************************************************************)
LookupSeeds == {0, 1, WorldSeed, DefaultSeed}

Abscissas == {0, -1, 255 * NU + NU \div 2, 600 * NU}

Ordinates == {0, 7 - 3 * NU, 255 * NU}

Applicates == {0, 255 * NU + 1}

InitLookup ==
    /\ ServerAtRest
    /\ NoPage
    /\ args \in { [seed |-> seed, x |-> x, y |-> y, z |-> z] :
                    seed \in LookupSeeds, x \in Abscissas, y \in Ordinates,
                    z \in Applicates }
    /\ returned = <<>>

Noise ==
    /\ returned = <<>>
    /\ returned' = << [of |-> "noise",
                       value |-> TableIndices(generatePermutation(args.seed),
                                              args.x, args.y, args.z)] >>
    /\ UNCHANGED <<serverVars, clientVars, args>>

NextLookup == Noise

SpecLookup == InitLookup /\ [][NextLookup]_vars

(***************************************************************************)
(* What the properties below speak of: the players and the bullets of the  *)
(* registries, the last message sent, and the hit distance measured anew.  *)
(***************************************************************************)
Registered == { players[i] : i \in 1..Len(players) }

InFlight == { bullets[i] : i \in 1..Len(bullets) }

LastEvent ==
    IF emitted = <<>> THEN [event |-> "none"] ELSE emitted[Len(emitted)]

Ticked == LastEvent.event = "game-update"

IsHit(e) == e.event = "player-hit"

Closer(a, b) ==
    /\ Abs(a.x - b.x) < U
    /\ Abs(a.y - b.y) < U
    /\ Abs(a.z - b.z) < U
    /\ (a.x - b.x) * (a.x - b.x) + (a.y - b.y) * (a.y - b.y)
         + (a.z - b.z) * (a.z - b.z) < U * U

(***************************************************************************)
(* C1: takeDamage returns killed = TRUE exactly when the call took the     *)
(* health of the player from a positive value to 0, and a call on a dead   *)
(* player leaves health 0, isAlive FALSE and returns killed = FALSE.       *)
(* The code returns !this.isAlive, which is TRUE for every call on a dead  *)
(* player: the statement fails as soon as a dead player is registered.     *)
(***************************************************************************)
C1_KilledIffBroughtToZero ==
    \A p \in Registered :
        LET r == takeDamage(p, BULLET_DAMAGE)
        IN  /\ r.killed <=> (p.health > 0 /\ r.player.health = 0)
            /\ ~p.isAlive =>
                 (r.player.health = 0 /\ ~r.player.isAlive /\ ~r.killed)

(***************************************************************************)
(* C2: isAlive is FALSE exactly when health is 0, and a dead player stays  *)
(* dead with health 0 through every step.                                  *)
(***************************************************************************)
C2_DeadIffNoHealth == \A p \in Registered : ~p.isAlive <=> p.health = 0

C2_StaysDead ==
    \A p \in Registered : \A q \in Registered' :
        (q.id = p.id /\ ~p.isAlive) => (~q.isAlive /\ q.health = 0)

C2_DeadForGood == []C2_DeadIffNoHealth /\ [][C2_StaysDead]_vars

C2_Witness ==
    /\ Ticked
    /\ damaged = <<>>
    /\ bullets # <<>>
    /\ \E p \in Registered : ~p.isAlive

(***************************************************************************)
(* C3: the health of every player is within 0..MAX_HEALTH.                 *)
(***************************************************************************)
C3_HealthInRange == \A p \in Registered : p.health \in 0..MAX_HEALTH

C3_Witness ==
    \E k \in 1..Len(damaged) : \E p \in Registered :
        /\ damaged[k].killed
        /\ damaged[k].target.health = BULLET_DAMAGE
        /\ p.id = damaged[k].target.id
        /\ p.health = 0

(***************************************************************************)
(* C6: bounceCount never exceeds BULLET_MAX_BOUNCES.  A terrain collision  *)
(* of a bullet that has bounced fewer than three times bounces it:         *)
(* bounceCount is one more, y is the terrain height and the vertical       *)
(* velocity is the falling velocity negated and scaled by 0.4.  A          *)
(* collision of a bullet that has bounced three times deactivates it.      *)
(***************************************************************************)
C6_BounceBound ==
    \A b \in InFlight \cup retired : b.bounceCount <= BULLET_MAX_BOUNCES

C6_Collisions ==
    \A c \in collided :
        IF c.bounces < BULLET_MAX_BOUNCES
        THEN \A b \in InFlight \cup retired :
                 b.id = c.id =>
                     /\ b.bounceCount = c.bounces + 1
                     /\ b.position.y =
                          TerrainHeightAt(b.position.x, b.position.z) * U
        ELSE /\ \A b \in InFlight : b.id # c.id
             /\ \E g \in retired :
                    g.id = c.id /\ ~g.isActive /\ g.bounceCount = c.bounces

C6_Rebound ==
    \A b \in InFlight : \A q \in InFlight' \cup retired' :
        q.id = b.id =>
            IF \E c \in collided' : c.id = b.id
            THEN b.bounceCount < BULLET_MAX_BOUNCES =>
                   q.velocity.y =
                     ((-(b.velocity.y + BULLET_GRAVITY * (now' - lastUpdate)))
                        * 4) \div 10
            ELSE q.bounceCount = b.bounceCount

C6_ThreeBounces ==
    []C6_BounceBound /\ []C6_Collisions /\ [][C6_Rebound]_vars

C6_Witness ==
    /\ \E c \in collided : c.bounces = BULLET_MAX_BOUNCES
    /\ \E g \in retired : g.bounceCount = BULLET_MAX_BOUNCES

(***************************************************************************)
(* C7: a bullet that has become inactive is never active again: it is not  *)
(* in the registry any more, and update on it changes nothing and returns  *)
(* FALSE.                                                                  *)
(***************************************************************************)
C7_InactiveForGood ==
    /\ \A b \in InFlight : b.isActive /\ \A g \in retired : g.id # b.id
    /\ \A g \in retired :
          /\ ~g.isActive
          /\ \A delta \in {0, ClockStep} :
                LET r == ServerBulletUpdate(g, delta, players)
                IN  /\ r.bullet = g
                    /\ r.players = players
                    /\ r.ret = FALSE
                    /\ r.events = <<>>
                    /\ r.damaged = <<>>

C7_Witness ==
    /\ Ticked
    /\ bullets = <<>>
    /\ \E g \in retired : \E h \in retired : g.life - h.life > ClockStep

(***************************************************************************)
(* C8: update returns FALSE exactly when it leaves the bullet inactive, so *)
(* after a tick the registry and the snapshot of game-update hold active   *)
(* bullets only, and the same ones.                                        *)
(***************************************************************************)
C8_OnlyActiveBullets ==
    /\ \A b \in InFlight \cup retired : \A delta \in {0, ClockStep} :
          LET r == ServerBulletUpdate(b, delta, players)
          IN  r.ret <=> r.bullet.isActive
    /\ \A b \in InFlight : b.isActive
    /\ Ticked =>
          /\ Len(LastEvent.bullets) = Len(bullets)
          /\ \A i \in 1..Len(bullets) :
                /\ LastEvent.bullets[i].isActive
                /\ LastEvent.bullets[i].id = bullets[i].id

C8_Witness ==
    /\ Ticked
    /\ bullets # <<>>
    /\ retired # {}
    /\ collided # {}

(***************************************************************************)
(* C9: a bullet damages neither its owner nor a dead player: every call of *)
(* takeDamage is on a live player other than the owner, closer than 1.0,   *)
(* and the health of a player changes by such a call only.                 *)
(***************************************************************************)
C9_LiveOthersInRange ==
    \A k \in 1..Len(damaged) :
        /\ damaged[k].target.id # damaged[k].bullet.ownerId
        /\ damaged[k].target.isAlive
        /\ damaged[k].target.health > 0
        /\ Closer(damaged[k].bullet.position, damaged[k].target.position)

C9_HurtByHitOnly ==
    \A p \in Registered : \A q \in Registered' :
        (q.id = p.id /\ q.health # p.health) =>
            \E k \in 1..Len(damaged') : damaged'[k].target.id = p.id

C9_NoDamageToOwnerOrDead ==
    []C9_LiveOthersInRange /\ [][C9_HurtByHitOnly]_vars

C9_Witness ==
    /\ Ticked
    /\ damaged = <<>>
    /\ \E b \in InFlight : \E p \in Registered : \E o \in Registered :
          /\ o.id = b.ownerId
          /\ Closer(b.position, o.position)
          /\ p.id # b.ownerId
          /\ ~p.isAlive
          /\ Closer(b.position, p.position)

(***************************************************************************)
(* The player with the given id before and after a step, and the kinds of  *)
(* step: the game loop sets lastUpdate, a handler leaves it alone.         *)
(***************************************************************************)
Same(p, q) == q.id = p.id

TickStep == lastUpdate' # lastUpdate

Events(name) == { k \in 1..Len(emitted) : emitted[k].event = name }

(***************************************************************************)
(* C11: a shot is accepted only from a registered, living player with      *)
(* ammo > 0 and at least 150 ms after lastShot, which is the time of that  *)
(* player's last accepted shot; an accepted shot takes exactly one round   *)
(* from the clip and adds exactly one bullet to the registry; ammo is      *)
(* never below 0.                                                          *)
(***************************************************************************)
C11_AmmoNotNegative == \A p \in Registered : p.ammo >= 0

C11_Accepted ==
    bulletIdCounter' # bulletIdCounter =>
        /\ bulletIdCounter' = bulletIdCounter + 1
        /\ Len(bullets') = Len(bullets) + 1
        /\ SubSeq(bullets', 1, Len(bullets)) = bullets
        /\ \E i \in 1..Len(players) :
              /\ players[i].id = bullets'[Len(bullets')].ownerId
              /\ players[i].id \in sockets
              /\ players[i].isAlive
              /\ players[i].ammo > 0
              /\ now - players[i].lastShot >= 150
              /\ players' = [players EXCEPT ![i].ammo = @ - 1,
                                            ![i].lastShot = now]

C11_SpentByShotsOnly ==
    \A p \in Registered : \A q \in Registered' :
        (Same(p, q) /\ (q.ammo < p.ammo \/ q.lastShot # p.lastShot)) =>
            bulletIdCounter' # bulletIdCounter

C13_Stocked ==
    \A p \in Registered : p.ammo \in 0..AMMO_CAPACITY /\ p.totalAmmo >= 0

C13_Transfer ==
    \A p \in Registered : \A q \in Registered' :
        (Same(p, q) /\ (q.ammo > p.ammo \/ q.totalAmmo # p.totalAmmo)) =>
            /\ p.ammo < AMMO_CAPACITY
            /\ p.totalAmmo > 0
            /\ q.ammo = p.ammo + Min(AMMO_CAPACITY - p.ammo, p.totalAmmo)
            /\ q.ammo + q.totalAmmo = p.ammo + p.totalAmmo
            /\ emitted' = << [event |-> "player-reloaded", to |-> p.id,
                              ammo |-> q.ammo, totalAmmo |-> q.totalAmmo] >>

C13_ToldOfTransfersOnly ==
    \A k \in 1..Len(emitted') :
        emitted'[k].event = "player-reloaded" =>
            \E p \in Registered :
                /\ p.id = emitted'[k].to
                /\ p.ammo < AMMO_CAPACITY
                /\ p.totalAmmo > 0
                /\ emitted'[k].ammo > p.ammo

C13_Reload == []C13_Stocked /\ [][C13_Transfer /\ C13_ToldOfTransfersOnly]_vars

C13_Witness ==
    /\ Events("player-reloaded") # {}
    /\ \E p \in Registered : p.ammo = 10 /\ p.totalAmmo = 0

(***************************************************************************)
(* C15: a handler changes the velocity, the rotation, the inputSequence,   *)
(* the grounding or the lastInputTime of a player only at least 16 ms      *)
(* after lastInputTime, which it then sets to the present time; so the     *)
(* inputs that take effect are at least 16 ms apart and an input that      *)
(* comes sooner changes nothing.                                           *)
(***************************************************************************)
C15_Moved(p, q) ==
    \/ q.velocity # p.velocity
    \/ q.rotation # p.rotation
    \/ q.inputSequence # p.inputSequence
    \/ q.isGrounded # p.isGrounded
    \/ q.lastInputTime # p.lastInputTime

C15_Spaced ==
    \A p \in Registered : \A q \in Registered' :
        (Same(p, q) /\ ~TickStep /\ C15_Moved(p, q)) =>
            /\ now - p.lastInputTime >= 16
            /\ q.lastInputTime = now
            /\ q.inputSequence # p.inputSequence

C15_Timely ==
    \A p \in Registered : \A q \in Registered' :
        (Same(p, q) /\ TickStep) =>
            (q.lastInputTime = p.lastInputTime /\ q.inputSequence = p.inputSequence)

C15_InputRate == [][C15_Spaced /\ C15_Timely]_vars

C15_Witness ==
    \E p \in Registered :
        /\ p.inputSequence = 3
        /\ p.lastInputTime = StartTime + 166

(***************************************************************************)
(* C16 on the server: a handler changes the vertical velocity or the       *)
(* grounding of a player only when the player is grounded, and then the    *)
(* vertical velocity is JUMP_VELOCITY and the player is grounded no more;  *)
(* an input to a player in the air leaves both as they are.                *)
(***************************************************************************)
C16_Lifted(p, q) ==
    q.velocity.y # p.velocity.y \/ q.isGrounded # p.isGrounded

C16_FromTheGround ==
    \A p \in Registered : \A q \in Registered' :
        (Same(p, q) /\ ~TickStep /\ C16_Lifted(p, q)) =>
            /\ p.isGrounded
            /\ ~q.isGrounded
            /\ q.velocity.y = JUMP_VELOCITY * U

C16_ServerJump == [][C16_FromTheGround]_vars

C16_ServerWitness ==
    \E p \in Registered :
        /\ p.inputSequence >= 2
        /\ p.lastInputTime = now
        /\ ~p.isGrounded
        /\ p.velocity.y > 0
        /\ p.velocity.y < JUMP_VELOCITY * U
        /\ p.position.y > SpawnPosition.y

(***************************************************************************)
(* C17 on the server: a bullet is tested against the players as the        *)
(* player loop of the same tick left them, so after a tick no bullet in    *)
(* flight is within the hit distance of a living player other than its     *)
(* owner; the tick leaves alone what the handlers set (sockets, bullet     *)
(* ids, ammunition, the times of the last shot and input, the sequence     *)
(* number and the rotation) and a handler leaves alone what the tick sets  *)
(* (lastUpdate, the positions of the players and the bullets, their life). *)
(***************************************************************************)
C17_NoneMissed ==
    Ticked =>
        \A b \in InFlight : \A p \in Registered :
            (p.id # b.ownerId /\ p.isAlive) =>
                ~WithinHitDistance(b.position, p.position)

C17_TickOnly ==
    TickStep =>
        /\ sockets' = sockets
        /\ bulletIdCounter' = bulletIdCounter
        /\ Len(players') = Len(players)
        /\ \A i \in 1..Len(players) :
              /\ players'[i].id = players[i].id
              /\ players'[i].ammo = players[i].ammo
              /\ players'[i].totalAmmo = players[i].totalAmmo
              /\ players'[i].lastShot = players[i].lastShot
              /\ players'[i].lastInputTime = players[i].lastInputTime
              /\ players'[i].inputSequence = players[i].inputSequence
              /\ players'[i].rotation = players[i].rotation

C17_HandlerOnly ==
    ~TickStep =>
        /\ \A p \in Registered : \A q \in Registered' :
              Same(p, q) => (q.position = p.position /\ q.health = p.health)
        /\ \A b \in InFlight : \A c \in InFlight' :
              c.id = b.id => c = b
        /\ retired' = retired

C17_OneTickAtATime ==
    []C17_NoneMissed /\ [][C17_TickOnly /\ C17_HandlerOnly]_vars

C17_ServerWitness ==
    /\ Ticked
    /\ \E k \in 1..Len(damaged) :
          /\ damaged[k].target.position.y > SpawnPosition.y
          /\ ~damaged[k].target.isGrounded

(***************************************************************************)
(* C20: for every integer seed the table generatePermutation returns has   *)
(* 512 entries, its first 256 entries hold each of 0..255 exactly once and *)
(* its second 256 entries repeat the first in the same order.              *)
(***************************************************************************)
C20_PermutationOfAnySeed ==
    returned # <<>> =>
        /\ Len(returned) = 512
        /\ \A v \in 0..255 :
              Cardinality({ k \in 1..256 : returned[k] = v }) = 1
        /\ \A k \in 1..256 : returned[k + 256] = returned[k]

(***************************************************************************)
(* The same for the seeds from 0 up, which keep the generator from going   *)
(* negative.                                                               *)
(***************************************************************************)
C20_PermutationOfNaturalSeed == args.seed >= 0 => C20_PermutationOfAnySeed

(***************************************************************************)
(* C18: two calls of getBlockType with the same (x, y, z) return the same  *)
(* block type.                                                             *)
(***************************************************************************)
Calls(name) == { k \in 1..Len(returned) : returned[k].of = name }

C18_SameBlockEveryCall ==
    \A i \in Calls("getBlockType") : \A j \in Calls("getBlockType") :
        returned[i].value = returned[j].value

(***************************************************************************)
(* C19: for every column the height the server computes in closed form is  *)
(* the height the client finds by its scan from the top of the world.      *)
(***************************************************************************)
C19_ScanIsClosedForm ==
    \A i \in Calls("getTerrainHeight") :
        \A j \in Calls("playerGetTerrainHeight") :
            returned[i].value = returned[j].value

(***************************************************************************)
(* What the client properties speak of: the records of called' for the     *)
(* calls of one function, and the pending timers of one callback.          *)
(***************************************************************************)
CalledNext(name) == { k \in 1..Len(called') : called'[k].of = name }

Pending(callback) == { k \in 1..Len(timers) : timers[k].callback = callback }

(***************************************************************************)
(* C12: the client weapon accepts a shot whenever fireRate milliseconds or *)
(* more have passed since the last accepted shot, there is ammo in the     *)
(* clip and no reload is in progress; a shot attempted exactly fireRate    *)
(* milliseconds after the last one is accepted.                            *)
(***************************************************************************)
C12_AcceptedAtFireRate ==
    [][ (/\ controls.isLocked
         /\ ~weaponSystem.isReloading
         /\ gameState.ammo > 0
         /\ clock' - weaponSystem.lastShot >= rifle.fireRate)
        => \A k \in CalledNext("fireWeapon") : called'[k].value ]_vars

(***************************************************************************)
(* What does hold of the fire rate: a shot is accepted if and only if more *)
(* than fireRate milliseconds have passed, with ammo and without a reload. *)
(***************************************************************************)
C12_AcceptedPastFireRate ==
    [][ \A k \in CalledNext("fireWeapon") :
           called'[k].value <=> (/\ ~weaponSystem.isReloading
                                 /\ gameState.ammo > 0
                                 /\ clock' - weaponSystem.lastShot > rifle.fireRate)
      ]_vars

(***************************************************************************)
(* C14: an accepted reload of the client takes effect only after           *)
(* reloadTime.  While isReloading is true the ammo and the reserve do not  *)
(* change, no shot and no further reload is accepted, and exactly one      *)
(* transfer is pending; the window closes by that transfer, not before it  *)
(* is due, and the transfer fills the clip from the reserve.  Whatever the *)
(* order of manual reloads, shots and the reloads queued by the frames,    *)
(* the ammo stays within 0..AMMO_CAPACITY and the reserve at 0 or above.   *)
(***************************************************************************)
C14_Stocked ==
    /\ gameState.ammo \in 0..AMMO_CAPACITY
    /\ gameState.totalAmmo >= 0

C14_OneTransfer ==
    Cardinality(Pending("transfer")) = IF weaponSystem.isReloading THEN 1 ELSE 0

C14_Opened ==
    (~weaponSystem.isReloading /\ weaponSystem.isReloading')
    => /\ \E k \in CalledNext("reload") : called'[k].value
       /\ \E k \in 1..Len(timers') :
             /\ timers'[k].callback = "transfer"
             /\ timers'[k].due = clock' + rifle.reloadTime
       /\ gameState.ammo' = gameState.ammo
       /\ gameState.totalAmmo' = gameState.totalAmmo

C14_Held ==
    (weaponSystem.isReloading /\ weaponSystem.isReloading')
    => /\ gameState.ammo' = gameState.ammo
       /\ gameState.totalAmmo' = gameState.totalAmmo
       /\ \A k \in CalledNext("fireWeapon") \cup CalledNext("reload") :
             ~called'[k].value
       /\ CalledNext("transfer") = {}

C14_Closed ==
    (weaponSystem.isReloading /\ ~weaponSystem.isReloading')
    => /\ \A k \in Pending("transfer") : timers[k].due <= clock'
       /\ Cardinality(CalledNext("transfer")) = 1
       /\ gameState.ammo' = Min(AMMO_CAPACITY, gameState.ammo + gameState.totalAmmo)
       /\ gameState.ammo' + gameState.totalAmmo'
            = gameState.ammo + gameState.totalAmmo

C14_ReloadWindow ==
    /\ [](C14_Stocked /\ C14_OneTransfer)
    /\ [][C14_Opened /\ C14_Held /\ C14_Closed]_vars

(***************************************************************************)
(* C14 happens: a reload that a frame queued is turned down while the      *)
(* window of an earlier one is open, with the empty clip not yet filled.   *)
(***************************************************************************)
C14_Witness ==
    /\ weaponSystem.isReloading
    /\ gameState.ammo = 0
    /\ \E k \in 1..Len(called) : called[k].of = "reload" /\ ~called[k].value
    /\ Pending("reload") # {}

(***************************************************************************)
(* C16 on the client: Space sets the vertical velocity to JUMP_VELOCITY    *)
(* and clears canJump if canJump is set, and leaves the player as it is    *)
(* otherwise; canJump is set again only by a frame that puts the player on *)
(* the terrain, and nothing else gives the player an upward velocity.      *)
(***************************************************************************)
C16_Pressed ==
    \A k \in CalledNext("jump") :
        /\ called'[k].value <=> controls.canJump
        /\ called'[k].value =>
              /\ controls'.velocity.y = JUMP_VELOCITY * U
              /\ ~controls'.canJump
        /\ ~called'[k].value => controls' = controls

C16_Landed ==
    (~controls.canJump /\ controls'.canJump)
    => /\ page'.frames = page.frames + 1
       /\ controls'.velocity.y = 0
       /\ \E random \in Draws :
             controls'.position.y =
                 playerGetTerrainHeight(controls'.position.x,
                                        controls'.position.z, random) * U
                 + PLAYER_HEIGHT

C16_Risen ==
    (controls'.velocity.y > 0 /\ controls'.velocity.y > controls.velocity.y)
    => \E k \in CalledNext("jump") : called'[k].value

C16_ClientJump ==
    [][PageOpen => (C16_Pressed /\ C16_Landed /\ C16_Risen)]_vars

(***************************************************************************)
(* C16 happens on the client: Space is pressed in the air, on the way up   *)
(* from a jump, and is turned down.                                        *)
(***************************************************************************)
C16_ClientWitness ==
    /\ called = << [of |-> "jump", value |-> FALSE] >>
    /\ ~controls.canJump
    /\ controls.velocity.y > 0
    /\ controls.velocity.y < JUMP_VELOCITY * U
    /\ controls.position.y > InitialControls(500).position.y

(***************************************************************************)
(* C16: a jump takes effect only for an entity on the ground at the moment *)
(* of the input; it sets the vertical velocity to JUMP_VELOCITY and clears *)
(* the grounding, so that a second jump before the entity has touched the  *)
(* ground again has no effect, on the server and on the client.            *)
(***************************************************************************)
C16_NoDoubleJump == C16_ServerJump /\ C16_ClientJump

(***************************************************************************)
(* C17 on the client: a bullet of a frame is tested against the enemies as *)
(* the enemy loop of the same frame left them, so an enemy that survives a *)
(* hit stands after the frame where the bullet found it; only a frame      *)
(* moves the enemies and the bullets, and a frame leaves the pointer lock  *)
(* alone.                                                                  *)
(***************************************************************************)
C17_EnemiesFirst ==
    \A k \in CalledNext("takeDamage") :
        ~called'[k].value =>
            \E i \in 1..Len(gameState'.enemies) :
                /\ gameState'.enemies[i].id = called'[k].enemy
                /\ gameState'.enemies[i].position = called'[k].at

C17_FrameOnly ==
    page'.frames = page.frames =>
        /\ \A i \in 1..Len(gameState.enemies) :
              /\ i <= Len(gameState'.enemies)
              /\ gameState'.enemies[i] = gameState.enemies[i]
        /\ \A i \in 1..Len(gameState.bullets) :
              /\ i <= Len(gameState'.bullets)
              /\ gameState'.bullets[i] = gameState.bullets[i]
        /\ gameState'.health = gameState.health
        /\ gameState'.score = gameState.score

C17_OneFrameAtATime ==
    [][PageOpen => (C17_EnemiesFirst /\ C17_FrameOnly)]_vars

(***************************************************************************)
(* C17 happens on the client: a bullet has hit an enemy that has moved     *)
(* from where it appeared, and the enemy has survived.                     *)
(***************************************************************************)
C17_ClientWitness ==
    \E k \in 1..Len(called) : \E i \in 1..Len(gameState.enemies) :
        /\ called[k].of = "takeDamage"
        /\ gameState.enemies[i].id = called[k].enemy
        /\ gameState.enemies[i].health = 10
        /\ gameState.enemies[i].position # Enemy(1, 32 * U, 0).position

(***************************************************************************)
(* C17: within a tick of the server and within a frame of the client every *)
(* entity is updated before any projectile, and no handler runs in the     *)
(* middle of a tick: a tick is one step, apart from the steps of the       *)
(* input, shoot, reload and disconnect events.                             *)
(***************************************************************************)
C17_EntitiesThenProjectiles == C17_OneTickAtATime /\ C17_OneFrameAtATime

(***************************************************************************)
(* C4: on the client the health of the player is never negative: the       *)
(* damage of the enemies and of the water stops at 0.                      *)
(***************************************************************************)
C4_HealthNeverNegative == PageOpen => gameState.health >= 0

(***************************************************************************)
(* C5: on the client, whenever the health of the player is 0 or below,     *)
(* handlePlayerDeath has run: no state has health <= 0 with the game still *)
(* running.                                                                *)
(***************************************************************************)
C5_DeathHandled ==
    (PageOpen /\ gameState.health <= 0) => page.phase = "over"

(***************************************************************************)
(* C10 on the server: every call of takeDamage by a bullet comes with one  *)
(* player-hit event, in the same order, that names the target and the      *)
(* shooter and whose killed field is what takeDamage returned; a bullet    *)
(* calls takeDamage at most once in a tick, it was active in the registry  *)
(* before the tick and it is deleted from the registry, inactive, by the   *)
(* end of it.                                                              *)
(***************************************************************************)
C10_OneEventEach ==
    /\ Len(SelectSeq(emitted, IsHit)) = Len(damaged)
    /\ \A k \in 1..Len(damaged) :
          /\ SelectSeq(emitted, IsHit)[k].targetId = damaged[k].target.id
          /\ SelectSeq(emitted, IsHit)[k].shooterId = damaged[k].bullet.ownerId
          /\ SelectSeq(emitted, IsHit)[k].damage = damaged[k].bullet.damage
          /\ SelectSeq(emitted, IsHit)[k].killed = damaged[k].killed

C10_SpentOnHit ==
    \A k \in 1..Len(damaged) :
        /\ \A j \in 1..Len(damaged) :
              damaged[j].bullet.id = damaged[k].bullet.id => j = k
        /\ \A b \in InFlight : b.id # damaged[k].bullet.id
        /\ \E g \in retired : g.id = damaged[k].bullet.id /\ ~g.isActive

C10_LiveBefore ==
    \A k \in 1..Len(damaged') :
        /\ \E b \in InFlight : b.id = damaged'[k].bullet.id /\ b.isActive
        /\ \A g \in retired : g.id # damaged'[k].bullet.id

C10_ServerOnce ==
    /\ [](C10_OneEventEach /\ C10_SpentOnHit)
    /\ [][C10_LiveBefore]_vars

C10_ClientOnce ==
    [][PageOpen =>
         \A k \in CalledNext("takeDamage") :
            /\ \A j \in CalledNext("takeDamage") :
                  called'[j].bullet = called'[k].bullet => j = k
            /\ \E i \in 1..Len(gameState.bullets) :
                  gameState.bullets[i].id = called'[k].bullet
            /\ \A i \in 1..Len(gameState'.bullets) :
                  gameState'.bullets[i].id # called'[k].bullet
            /\ \E i \in 1..Len(weaponSystem'.bulletPool.available) :
                  weaponSystem'.bulletPool.available[i] = called'[k].bullet
      ]_vars

(***************************************************************************)
(* C10 happens on the client: a bullet has damaged an enemy and is back in *)
(* the pool, with no bullet left in the air.                               *)
(***************************************************************************)
C10_ClientWitness ==
    /\ PageOpen
    /\ \E k \in 1..Len(called) :
          /\ called[k].of = "takeDamage"
          /\ \E i \in 1..Len(weaponSystem.bulletPool.available) :
                weaponSystem.bulletPool.available[i] = called[k].bullet
    /\ gameState.bullets = <<>>

C21_SameNoise ==
    /\ \A k \in 1..Len(returned) : returned[k].server = returned[k].utils
    /\ \A j, k \in 1..Len(returned) :
          (returned[j].of = returned[k].of /\ returned[j].query = returned[k].query)
          => returned[j].server = returned[k].server

(***************************************************************************)
(* C21 happens: the generators of the world's seed were built and sampled  *)
(* twice with the same query, away from the lattice points.                *)
(***************************************************************************)
C21_Witness ==
    /\ Len(returned) = 3
    /\ returned[1].query = WorldSeed
    /\ returned[2].query = returned[3].query
    /\ returned[2].utils # 0

(***************************************************************************)
(* C22: a player-input whose payload is missing or has no input record is  *)
(* ignored: the handler throws nothing and leaves the velocity, rotation,  *)
(* inputSequence and lastInputTime of every player as they were; so does   *)
(* an input of a socket that has no player.                                *)
(***************************************************************************)
C22_MalformedInputIgnored ==
    [][ (args' # args /\ args'.of = "player-input")
        => /\ ~returned'[1].thrown
           /\ Len(players') = Len(players)
           /\ \A i \in 1..Len(players) :
                 /\ players'[i].velocity = players[i].velocity
                 /\ players'[i].rotation = players[i].rotation
                 /\ players'[i].inputSequence = players[i].inputSequence
                 /\ players'[i].lastInputTime = players[i].lastInputTime ]_vars

(***************************************************************************)
(* C23: a player-shoot that adds no bullet to the registry leaves the ammo *)
(* and lastShot of every player as they were and throws nothing.           *)
(***************************************************************************)
C23_RejectedShotIgnored ==
    [][ ((args' # args /\ args'.of = "player-shoot") /\ bullets' = bullets)
        => /\ ~returned'[1].thrown
           /\ Len(players') = Len(players)
           /\ \A i \in 1..Len(players) :
                 /\ players'[i].ammo = players[i].ammo
                 /\ players'[i].lastShot = players[i].lastShot ]_vars

(***************************************************************************)
(* C24: a dead player receives no updates: no step changes the position,   *)
(* velocity, ammo or totalAmmo of a player whose isAlive is false, as long *)
(* as it is in the registry.                                               *)
(***************************************************************************)
C24_DeadStaysPut ==
    [][ \A p \in Registered : \A q \in Registered' :
           (Same(p, q) /\ ~p.isAlive)
           => /\ q.position = p.position
              /\ q.velocity = p.velocity
              /\ q.ammo = p.ammo
              /\ q.totalAmmo = p.totalAmmo ]_vars

(***************************************************************************)
(* C25, as stated: a bullet that leaves the server registry does so when   *)
(* at most 5 seconds of delta have been taken from its life, the delta of  *)
(* the tick that removes it included, and a bullet that leaves             *)
(* gameState.bullets on the page when at most 3 seconds have.              *)
(***************************************************************************)
C25_LeavesInTime ==
    [][ /\ \A i \in 1..Len(bullets) :
              (\A j \in 1..Len(bullets') : bullets'[j].id # bullets[i].id)
              => (5 * U - bullets[i].life) + (lastUpdate' - lastUpdate) <= 5 * U
        /\ PageOpen
           => \A i \in 1..Len(gameState.bullets) :
                 (\A j \in 1..Len(gameState'.bullets) :
                     gameState'.bullets[j].id # gameState.bullets[i].id)
                 => (3 * 10000 - gameState.bullets[i].life) + FrameDelta
                      <= 3 * 10000 ]_vars

(***************************************************************************)
(* C25, amended: every projectile fired is removed in the end, while the   *)
(* loops keep running, in the first tick or frame at which the delta taken *)
(* from its life reaches 5 seconds on the server and 3 seconds on the      *)
(* page: a bullet of the registry or of gameState.bullets has life left,   *)
(* and it leaves, bounces and misses or not.                               *)
(***************************************************************************)
Registry(n) == \E i \in 1..Len(bullets) : bullets[i].id[2] = n

Flying(n) ==
    PageOpen /\ \E i \in 1..Len(gameState.bullets) : gameState.bullets[i].id = n

C25_ProjectilesLeave ==
    /\ [] (\A i \in 1..Len(bullets) :
              bullets[i].isActive /\ bullets[i].life > 0 /\ bullets[i].life <= 5 * U)
    /\ [] (PageOpen => \A i \in 1..Len(gameState.bullets) :
              gameState.bullets[i].life > 0 /\ gameState.bullets[i].life <= 3 * 10000)
    /\ \A n \in 1..MaxVolley : Registry(n) ~> ~Registry(n)
    /\ \A n \in 1..2 : Flying(n) ~> ~Flying(n)

C25_Witness ==
    /\ PageOpen
    /\ \E i \in 1..Len(gameState.bullets) : gameState.bullets[i].life < FrameDelta

(***************************************************************************)
(* C27: after a tick of the server every player is at or above the height  *)
(* of the terrain under it plus PLAYER_HEIGHT; isGrounded holds exactly    *)
(* for the players the tick has put at that height, and their vertical     *)
(* velocity is 0.                                                          *)
(***************************************************************************)
Standing(p) ==
    p.position.y = TerrainHeightAt(p.position.x, p.position.z) * U + PLAYER_HEIGHT

C27_OnOrAboveGround ==
    [][ TickStep
        => \A p \in Registered' :
              /\ p.position.y
                   >= TerrainHeightAt(p.position.x, p.position.z) * U + PLAYER_HEIGHT
              /\ p.isGrounded <=> Standing(p)
              /\ p.isGrounded => p.velocity.y = 0 ]_vars

C27_Witness ==
    /\ Ticked
    /\ \E p \in Registered :
          /\ ~p.isGrounded /\ ~Standing(p)
          /\ TerrainHeightAt(p.position.x, p.position.z) # TerrainHeightAt(0, 0)
    /\ \E p \in Registered : p.isGrounded /\ Standing(p) /\ p.velocity.y = 0

(***************************************************************************)
(* C26: after every frame of an initialized world the loaded chunk keys    *)
(* are exactly the keys within RENDER_DISTANCE of the chunk the camera is  *)
(* in, on both axes; every loaded key has a chunk in the cache of          *)
(* voxelWorld; and the cache loses no key and keeps, for every key it      *)
(* holds, the chunk it held.                                               *)
(***************************************************************************)
FrameStep == PageOpen /\ PageOpen' /\ page'.frames = page.frames + 1

CameraChunk(position) ==
    << (position.x \div U) \div CHUNK_SIZE, (position.z \div U) \div CHUNK_SIZE >>

C26_ChunksAroundPlayer ==
    [][ FrameStep
        => LET here == CameraChunk(controls'.position)
           IN  /\ gameState'.loadedChunks
                    = { k \in (here[1] - RENDER_DISTANCE .. here[1] + RENDER_DISTANCE)
                            \X (here[2] - RENDER_DISTANCE .. here[2] + RENDER_DISTANCE) : TRUE }
               /\ gameState'.loadedChunks \subseteq DOMAIN page'.chunks
               /\ \A k \in DOMAIN page.chunks :
                     k \in DOMAIN page'.chunks /\ page'.chunks[k] = page.chunks[k] ]_vars

C26_Witness ==
    /\ PageOpen
    /\ page.frames > 0
    /\ CameraChunk(controls.position) = <<0, 0>>
    /\ <<0, -4>> \in DOMAIN page.chunks
    /\ <<0, -4>> \notin gameState.loadedChunks
    /\ <<0, 3>> \in gameState.loadedChunks
    /\ page.chunks[<<0, 3>>] < page.chunks[<<0, -4>>]

(***************************************************************************)
(* C28: after every call of updatePlayerMovement with the controls locked  *)
(* the camera is at or above the terrain under it plus PLAYER_HEIGHT, the  *)
(* terrain being the one the call has seen: the one of the value random    *)
(* that Math.random() gave to the tree tests of the frame.                 *)
(***************************************************************************)
MovedWith(random) ==
    \E moved \in { updatePlayerMovement(Client, random).controls } :
        /\ moved.position = controls'.position
        /\ moved.velocity = controls'.velocity

C28_AboveTerrain ==
    [][ (FrameStep /\ controls.isLocked)
        => \A random \in Draws :
              MovedWith(random)
              => controls'.position.y
                   >= playerGetTerrainHeight(controls'.position.x,
                                             controls'.position.z, random) * U
                      + PLAYER_HEIGHT ]_vars

C28_Witness ==
    /\ PageOpen
    /\ page.frames > 0
    /\ controls.isLocked
    /\ controls.position.z # 0
    /\ controls.canJump
    /\ playerGetTerrainHeight(controls.position.x, controls.position.z, 5)
         # playerGetTerrainHeight(controls.position.x, controls.position.z, 500)
    /\ controls.position.y
         = playerGetTerrainHeight(controls.position.x, controls.position.z, 5) * U
           + PLAYER_HEIGHT

(***************************************************************************)
(* C29: the horizontal move of updatePlayerMovement never puts the player  *)
(* into terrain: when the position before the call is free of terrain,     *)
(* the position made of the new x and z at the old height, whether the     *)
(* whole move or one or both of the moves by one axis have been applied,   *)
(* is free of terrain under checkTerrainCollision.                         *)
(***************************************************************************)
C29_NoMoveIntoTerrain ==
    [][ (FrameStep /\ controls.isLocked)
        => \A random \in Draws :
              (MovedWith(random) /\ ~checkTerrainCollision(controls.position, 500, random))
              => ~checkTerrainCollision(Vec(controls'.position.x, controls.position.y,
                                            controls'.position.z), 500, random) ]_vars

(***************************************************************************)
(* C30: a projectile never tunnels through terrain.  For the bullets of    *)
(* the server: when a point of the straight segment from the position of   *)
(* a bullet before a tick to its position after gravity and the move of    *)
(* the tick is below the terrain surface, the tick resolves a terrain      *)
(* collision of that bullet.  The segment is sampled at PathSamples        *)
(* points, the end point among them.                                       *)
(***************************************************************************)
PathSamples == 10

PathPoint(from, to, k) ==
    Vec(from.x + ((to.x - from.x) * k) \div PathSamples,
        from.y + ((to.y - from.y) * k) \div PathSamples,
        from.z + ((to.z - from.z) * k) \div PathSamples)

BelowSurface(point) == point.y < TerrainHeightAt(point.x, point.z) * U

MovedTo(b, delta) ==
    Vec(b.position.x + (b.velocity.x * delta) \div U,
        b.position.y + ((b.velocity.y + BULLET_GRAVITY * delta) * delta) \div U,
        b.position.z + (b.velocity.z * delta) \div U)

C30_NoTunnelling ==
    [][ TickStep
        => \A i \in 1..Len(bullets) :
              (\E k \in 1..PathSamples :
                  BelowSurface(PathPoint(bullets[i].position,
                                         MovedTo(bullets[i], lastUpdate' - lastUpdate), k)))
              => \E met \in collided' : met.id = bullets[i].id ]_vars

(***************************************************************************)
(* C31: in the step of a client bullet the terrain comes before the        *)
(* enemies: a bullet whose move of the frame passes through a solid block  *)
(* (solid whatever Math.random() gives to the tree tests) has left         *)
(* gameState.bullets after the frame and has damaged no enemy in it.       *)
(***************************************************************************)
PathOf(b) == Minus(Advanced(b).position, b.position)

ThroughSolid(b) ==
    HitsTerrain(b.position, PathOf(b), Max(1, Ceil(LengthOf(PathOf(b)), 750)), 500)

C31_TerrainBeforeEnemies ==
    [][ FrameStep
        => \A i \in 1..Len(gameState.bullets) :
              ThroughSolid(gameState.bullets[i])
              => /\ \A j \in 1..Len(gameState'.bullets) :
                       gameState'.bullets[j].id # gameState.bullets[i].id
                 /\ \A k \in CalledNext("takeDamage") :
                       called'[k].bullet # gameState.bullets[i].id ]_vars

(***************************************************************************)
(* C32: after every tick of the server each bullet still in the registry   *)
(* is at or above the terrain surface at its x and z and at or below       *)
(* WORLD_HEIGHT + 50.                                                      *)
(***************************************************************************)
C32_BulletsWithinWorld ==
    [][ TickStep
        => \A i \in 1..Len(bullets') :
              /\ bullets'[i].position.y
                   >= TerrainHeightAt(bullets'[i].position.x, bullets'[i].position.z) * U
              /\ bullets'[i].position.y <= (WORLD_HEIGHT + 50) * U ]_vars

C32_Witness ==
    /\ Ticked
    /\ \E i \in 1..Len(bullets) :
          /\ bullets[i].bounceCount > 0
          /\ bullets[i].position.y
               = TerrainHeightAt(bullets[i].position.x, bullets[i].position.z) * U
    /\ \E r \in retired : r.position.y > (WORLD_HEIGHT + 50) * U

C35_SolidToSurface ==
    \A k \in 1..Len(returned) :
       returned[k].of = "getBlockType"
       => IF args.y <= BaseHeight(args.x, args.z)
          THEN returned[k].value \notin {AIR, WATER}
          ELSE returned[k].value \notin {AIR, WATER}
               => /\ returned[k].value = TREE
                  /\ args.y = BaseHeight(args.x, args.z) + 1

C35_Witness ==
    /\ Len(returned) = 2
    /\ returned[1].of = "getBlockType"
    /\ returned[2].of = "getBlockType"
    /\ args.y = BaseHeight(args.x, args.z) + 1
    /\ returned[1].value = TREE
    /\ returned[2].value = AIR

(***************************************************************************)
(* C36: ammunition is conserved.  The accepted shots of a player are the   *)
(* bullets it owns, in the registry or deleted from it; for every player   *)
(* of the registry the rounds in the clip, the rounds in reserve and the   *)
(* accepted shots add up to AMMO_CAPACITY + TOTAL_AMMO.                    *)
(***************************************************************************)
AcceptedShots(id) ==
    Cardinality({ b.id : b \in { q \in { bullets[k] : k \in 1..Len(bullets) } \cup retired :
                                   q.ownerId = id } })

C37_PoolApartFromActive ==
    PageOpen
    => LET active == gameState.bullets
           available == weaponSystem.bulletPool.available
       IN  /\ \A i \in 1..Len(active) : \A j \in 1..Len(available) :
                 active[i].id # available[j]
           /\ \A i, j \in 1..Len(active) : i # j => active[i].id # active[j].id
           /\ \A i, j \in 1..Len(available) : i # j => available[i] # available[j]
           /\ Len(available) <= weaponSystem.bulletPool.capacity

C37_Witness ==
    /\ PageOpen
    /\ weaponSystem.bulletPool.created >= 2
    /\ Len(weaponSystem.bulletPool.available) >= 1
    /\ \E i \in 1..Len(gameState.bullets) : gameState.bullets[i].id = 1

(***************************************************************************)
(* C38: the enemies are never more than 15.                                *)
(***************************************************************************)
C38_AtMostFifteen == PageOpen => Len(gameState.enemies) <= 15

(***************************************************************************)
(* C39: an enemy is destroyed once.  The score is 100 times the number of  *)
(* enemies that have left gameState.enemies, which is the number of        *)
(* enemies made less the number in the list.  Every call of takeDamage in  *)
(* a step is on an enemy that was in the list before the step; a call that *)
(* takes the health to 0 or below removes the enemy from the list and adds *)
(* 100 to the score, and no later call of the step is on that enemy.       *)
(***************************************************************************)
Destroyed == page.nextEnemy - 1 - Len(gameState.enemies)

Listed(enemies, id) == \E e \in 1..Len(enemies) : enemies[e].id = id

EnvSlack == 100

Unchecked == page.timeSinceLastEnvDamageCheck = page.frames * FrameDelta

C33_WallClockGated ==
    [][ FrameStep /\ Unchecked
        => /\ page'.timeSinceLastEnvDamageCheck = 0
              => clock' - PageStart >= 1000 - EnvSlack
           /\ clock' - PageStart >= 1000 + EnvSlack
              => page'.timeSinceLastEnvDamageCheck = 0 ]_vars

(***************************************************************************)
(* C40: every index at which noise reads the table lies within 0..511.     *)
(***************************************************************************)
C40_IndicesWithinTable ==
    \A k \in 1..Len(returned) :
       returned[k].of = "noise"
       => \A i \in 1..Len(returned[k].value) :
             returned[k].value[i] >= 0 /\ returned[k].value[i] <= 511

C40_Witness ==
    /\ Len(returned) = 1
    /\ returned[1].of = "noise"
    /\ args.x < 0
    /\ args.z > 0
    /\ \E i \in 1..Len(returned[1].value) : returned[1].value[i] > 256

=============================================================================
